---- MODULE Spec2Model ----
(***************************************************************************)
(* Model of the speak core of glottisdale: the ARPABET syllabifier         *)
(* (language/syllabify_arpabet.rs) with its two callers, the phonetic      *)
(* distance model (speak/phonetic_distance.rs) and the matcher             *)
(* (speak/matcher.rs).                                                     *)
(*                                                                         *)
(* Representation.  A phoneme label (a Rust String) is a tuple: its        *)
(* non-digit prefix followed by its trailing ASCII digits, one per         *)
(* element: "AE1" is <<"AE","1">>, "K" is <<"K">>, "" is <<>>.  Vectors are *)
(* sequences; Rust positions are 0-based and sequence positions 1-based,   *)
(* fields that hold a position (target_index, index) keep the Rust value.  *)
(* f64 costs of the matcher are held exactly, in tenths (0.1 is 1).        *)
(*                                                                         *)
(* The module also models the bank builder (speak/syllable_bank.rs), whose *)
(* raw labels are sequences of single characters so that normalize_phoneme *)
(* can scan them, and the assembler (speak/assembler.rs).  Times of        *)
(* plan_timing are integer ticks of 1/400 s, rounded after every           *)
(* arithmetic operation to MantissaBits significant bits, ties to even, as *)
(* f64 rounds to 53; a quotient is kept as a reduced fraction.             *)
(* The JSON object of MatchResult::to_json_value is a record whose field   *)
(* names are the object's keys, and the planning part of run_speak         *)
(* (cli/src/main.rs) takes the text as the pronunciations of its words.    *)
(***************************************************************************)
EXTENDS Integers, Sequences, FiniteSets, TLC

VARIABLES pc, pron, syl_out, targets, bank, matches, args, ret

vars == <<pc, pron, syl_out, targets, bank, matches, args, ret>>

(***************************************************************************)
(* Bounds and input domains                                                *)
(***************************************************************************)
MaxPronLen == 5

\* Labels a pronunciation is drawn from: the consonants the rules of the
\* syllabifier name, a lax stressed vowel and a vowel that is not lax.
PronLabels == { <<"S">>, <<"T">>, <<"R">>, <<"Y">>, <<"W">>, <<"AE","1">>, <<"IY","0">> }

RECURSIVE SeqsUpTo(_, _)
SeqsUpTo(S, n) ==
    IF n = 0 THEN { <<>> }
    ELSE LET shorter == SeqsUpTo(S, n - 1)
         IN  shorter \cup { Append(s, x) : s \in { t \in shorter : Len(t) = n - 1 }, x \in S }

\* Option<T>: None is the empty tuple and Some(x) the one-element tuple.
None == <<>>

Some(x) == <<x>>

Unwrap(o) == o[1]

\* A Vec built from [i \in 1..n |-> e]: the elements are computed once.
Vec(f) == f \o <<>>

Digits == { "0", "1", "2", "3", "4", "5", "6", "7", "8", "9" }

(***************************************************************************)
(* language/syllabify_arpabet.rs                                           *)
(***************************************************************************)
SLAX ==
    { <<"IH","1">>, <<"IH","2">>, <<"EH","1">>, <<"EH","2">>, <<"AE","1">>, <<"AE","2">>,
      <<"AH","1">>, <<"AH","2">>, <<"UH","1">>, <<"UH","2">> }

VOWELS ==
    { <<"IY","1">>, <<"IY","2">>, <<"IY","0">>, <<"EY","1">>, <<"EY","2">>, <<"EY","0">>,
      <<"AA","1">>, <<"AA","2">>, <<"AA","0">>, <<"ER","1">>, <<"ER","2">>, <<"ER","0">>,
      <<"AW","1">>, <<"AW","2">>, <<"AW","0">>, <<"AO","1">>, <<"AO","2">>, <<"AO","0">>,
      <<"AY","1">>, <<"AY","2">>, <<"AY","0">>, <<"OW","1">>, <<"OW","2">>, <<"OW","0">>,
      <<"OY","1">>, <<"OY","2">>, <<"OY","0">>, <<"IH","0">>, <<"EH","0">>, <<"AE","0">>,
      <<"AH","0">>, <<"UH","0">>, <<"UW","1">>, <<"UW","2">>, <<"UW","0">>, <<"UW">>,
      <<"IY">>, <<"EY">>, <<"AA">>, <<"ER">>, <<"AW">>, <<"AO">>, <<"AY">>,
      <<"OW">>, <<"OY">>, <<"UH">>, <<"IH">>, <<"EH">>, <<"AE">>, <<"AH">> }
    \cup SLAX

\* Licit 2-consonant onsets.
O2 ==
    { << <<"P">>, <<"R">> >>, << <<"T">>, <<"R">> >>, << <<"K">>, <<"R">> >>,
      << <<"B">>, <<"R">> >>, << <<"D">>, <<"R">> >>, << <<"G">>, <<"R">> >>,
      << <<"F">>, <<"R">> >>, << <<"TH">>, <<"R">> >>,
      << <<"P">>, <<"L">> >>, << <<"K">>, <<"L">> >>, << <<"B">>, <<"L">> >>,
      << <<"G">>, <<"L">> >>, << <<"F">>, <<"L">> >>, << <<"S">>, <<"L">> >>,
      << <<"K">>, <<"W">> >>, << <<"G">>, <<"W">> >>, << <<"S">>, <<"W">> >>,
      << <<"S">>, <<"P">> >>, << <<"S">>, <<"T">> >>, << <<"S">>, <<"K">> >>,
      << <<"HH">>, <<"Y">> >>,
      << <<"R">>, <<"W">> >> }

\* Licit 3-consonant onsets.
O3 ==
    { << <<"S">>, <<"T">>, <<"R">> >>, << <<"S">>, <<"K">>, <<"L">> >>,
      << <<"T">>, <<"R">>, <<"W">> >> }

is_vowel(seg) == seg \in VOWELS

is_slax(seg) == seg \in SLAX

Ok(v) == [ok |-> TRUE, val |-> v, err |-> ""]

Err(e) == [ok |-> FALSE, val |-> <<>>, err |-> e]

Tail2(s) == SubSeq(s, 2, Len(s))

Front(s) == SubSeq(s, 1, Len(s) - 1)

\* VowelPositions that takes a vowel right after a vowel for the same nucleus.
RECURSIVE VowelPositions_joins_hiatus(_, _)
VowelPositions_joins_hiatus(p, j) ==
    IF j > Len(p) THEN <<>>
    ELSE IF is_vowel(p[j]) /\ ~(j > 1 /\ is_vowel(p[j - 1]))
         THEN <<j>> \o VowelPositions_joins_hiatus(p, j + 1)
    ELSE VowelPositions_joins_hiatus(p, j + 1)

\* Positions (1-based) of the vowels of p, in order.
RECURSIVE VowelPositions(_, _)
VowelPositions(p, j) ==
    IF j > Len(p) THEN <<>>
    ELSE IF is_vowel(p[j]) THEN <<j>> \o VowelPositions(p, j + 1)
    ELSE VowelPositions(p, j + 1)

\* The first loop of syllabify: one nucleus per vowel, and before it the
\* interlude since the previous vowel (or the start of the word).
FindNuclei(mypron) ==
    LET vp == VowelPositions(mypron, 1)
    IN  [ nuclei |-> [ i \in 1..Len(vp) |-> << mypron[vp[i]] >> ],
          onsets |-> [ i \in 1..Len(vp) |->
                         SubSeq(mypron, (IF i = 1 THEN 0 ELSE vp[i - 1]) + 1, vp[i] - 1) ],
          last_vowel_idx |-> IF Len(vp) = 0 THEN 0 ELSE vp[Len(vp)] ]

\* OnsetDepth that never looks for a 3-cluster.
OnsetDepth_two_at_most(onset) ==
    LET n == Len(onset)
    IN  IF n > 1 /\ << onset[n - 1], onset[n] >> \in O2 THEN 2 ELSE 1

\* Onset maximization: how many symbols of the interlude stay in the onset.
OnsetDepth(onset) ==
    LET n == Len(onset)
    IN  IF n > 1 /\ << onset[n - 1], onset[n] >> \in O2
        THEN IF n >= 3
             THEN IF << onset[n - 2], onset[n - 1], onset[n] >> \in O3 THEN 3 ELSE 2
             ELSE 2
        ELSE 1

\* r_coloring that copies the R to the nucleus and leaves it in the interlude.
r_coloring_keeps_r(onset, nucleus_prev) ==
    IF Len(onset) > 1 /\ onset[1] = <<"R">>
    THEN [ onset |-> onset, nucleus |-> Append(nucleus_prev, onset[1]) ]
    ELSE [ onset |-> onset, nucleus |-> nucleus_prev ]

\* R-coloring: an interlude of more than one symbol that starts with R gives
\* the R to the previous nucleus.
r_coloring(onset, nucleus_prev) ==
    IF Len(onset) > 1 /\ onset[1] = <<"R">>
    THEN [ onset |-> Tail2(onset), nucleus |-> Append(nucleus_prev, onset[1]) ]
    ELSE [ onset |-> onset, nucleus |-> nucleus_prev ]

\* Y-gliding: an interlude of more than two symbols that ends with Y gives
\* the Y to the front of the next nucleus.
y_gliding(onset, nucleus_i) ==
    IF Len(onset) > 2 /\ onset[Len(onset)] = <<"Y">>
    THEN [ onset |-> Front(onset), nucleus |-> << onset[Len(onset)] >> \o nucleus_i ]
    ELSE [ onset |-> onset, nucleus |-> nucleus_i ]

\* Alaska rule: /s/ after a lax vowel goes to the coda.
alaska(onset, nucleus_prev, alaska_rule) ==
    IF /\ Len(onset) > 1
       /\ alaska_rule
       /\ Len(nucleus_prev) > 0 /\ is_slax(nucleus_prev[Len(nucleus_prev)])
       /\ onset[1] = <<"S">>
    THEN [ onset |-> Tail2(onset), coda |-> << onset[1] >> ]
    ELSE [ onset |-> onset, coda |-> <<>> ]

\* One pass of the loop "for i in 1..onsets.len()" (i is the 1-based position
\* of the syllable whose onset is resolved; the code's i is one less).
ResolveBoundary(st, i, alaska_rule) ==
    LET r     == r_coloring(st.onsets[i], st.nuclei[i - 1])
        y     == y_gliding(r.onset, st.nuclei[i])
        a     == alaska(y.onset, r.nucleus, alaska_rule)
        depth == OnsetDepth(a.onset)
        drain_count == IF Len(a.onset) > depth THEN Len(a.onset) - depth ELSE 0
        coda  == a.coda \o SubSeq(a.onset, 1, drain_count)
    IN  [ nuclei |-> [ st.nuclei EXCEPT ![i - 1] = r.nucleus, ![i] = y.nucleus ],
          onsets |-> [ st.onsets EXCEPT ![i] = SubSeq(a.onset, drain_count + 1, Len(a.onset)) ],
          codas  |-> Append(st.codas, coda) ]

RECURSIVE ResolveFrom(_, _, _)
ResolveFrom(st, i, alaska_rule) ==
    IF i > Len(st.onsets) THEN st
    ELSE ResolveFrom(ResolveBoundary(st, i, alaska_rule), i + 1, alaska_rule)

\* onset ++ nucleus ++ coda of every syllable, in order.
RECURSIVE Flat(_)
Flat(output) ==
    IF output = <<>> THEN <<>>
    ELSE output[1][1] \o output[1][2] \o output[1][3] \o Flat(Tail(output))

\* The part of syllabify after the nuclei were found: the codas, the output
\* triples and the check that every segment is accounted for.
BuildSyllables(p, found, alaska_rule) ==
    LET codas_final == SubSeq(p, found.last_vowel_idx + 1, Len(p))
        st0 == [ nuclei |-> found.nuclei, onsets |-> found.onsets, codas |-> <<>> ]
        st  == ResolveFrom(st0, 2, alaska_rule)
        codas  == Append(st.codas, codas_final)
        output == [ i \in 1..Len(st.onsets) |-> << st.onsets[i], st.nuclei[i], codas[i] >> ]
    IN  IF Flat(output) # p THEN Err("could not syllabify") ELSE Ok(output)

\* syllabify without the "nuclei.is_empty()" return.
syllabify_no_nuclei_check(p, alaska_rule) ==
    IF p = <<>> THEN Ok(<<>>)
    ELSE BuildSyllables(p, FindNuclei(p), alaska_rule)

\* syllabify without the "pron.is_empty()" return.
syllabify_no_empty_check(p, alaska_rule) ==
    LET found == FindNuclei(p)
    IN  IF Len(found.nuclei) = 0 THEN Err("no vowels found")
        ELSE BuildSyllables(p, found, alaska_rule)

syllabify(p, alaska_rule) ==
    IF p = <<>> THEN Ok(<<>>)
    ELSE LET found == FindNuclei(p)
         IN  IF Len(found.nuclei) = 0 THEN Err("no vowels found")
             ELSE BuildSyllables(p, found, alaska_rule)

(***************************************************************************)
(* language/syllabify.rs: syllabify_word.  A Syllable is modelled by the   *)
(* labels of its phonemes and its word_index; the start and end times,     *)
(* which no branch of the function reads, are left out.                    *)
(***************************************************************************)
\* syllabify_word that drops a word the syllabifier fails on.
syllabify_word_drops(phonemes, word_index) ==
    LET r == syllabify(phonemes, TRUE)
    IN  IF phonemes = <<>> \/ ~r.ok THEN <<>>
        ELSE [ i \in 1..Len(r.val) |->
                 [ phonemes   |-> r.val[i][1] \o r.val[i][2] \o r.val[i][3],
                   word_index |-> word_index ] ]

syllabify_word(phonemes, word_index) ==
    IF phonemes = <<>> THEN <<>>
    ELSE
      LET r == syllabify(phonemes, TRUE)
          syl_tuples == IF r.ok /\ r.val # <<>> THEN r.val
                        ELSE << << <<>>, phonemes, <<>> >> >>
      IN  [ i \in 1..Len(syl_tuples) |->
              [ phonemes   |-> syl_tuples[i][1] \o syl_tuples[i][2] \o syl_tuples[i][3],
                word_index |-> word_index ] ]

(***************************************************************************)
(* speak/target_text.rs.  The text is modelled by what g2p returns for     *)
(* each of its whitespace-separated words (<<>> for a word that is only    *)
(* punctuation or has no phonemes).                                        *)
(***************************************************************************)
DigitValue == ("0" :> 0) @@ ("1" :> 1) @@ ("2" :> 2) @@ ("3" :> 3) @@ ("4" :> 4) @@
              ("5" :> 5) @@ ("6" :> 6) @@ ("7" :> 7) @@ ("8" :> 8) @@ ("9" :> 9)

\* Non-digit prefixes that are not alphabetic: the placeholders an aligner
\* emits for punctuation and silence.
NonAlphabetic == { "", " ", ",", ".", "'", "-" }

\* Stress of the first label that ends in a digit.
RECURSIVE extract_stress(_)
extract_stress(phonemes) ==
    IF phonemes = <<>> THEN None
    ELSE LET q == phonemes[1]
         IN  IF Len(q) > 0 /\ q[Len(q)] \in Digits THEN Some(DigitValue[q[Len(q)]])
             ELSE extract_stress(Tail(phonemes))

\* The filter "valid ARPABET phoneme" of text_to_syllables.
IsArpabetToken(q) ==
    /\ q # <<>>
    /\ q # <<"">> /\ q # <<" ">>
    /\ \/ Len(q) = 1 /\ q[1] \notin NonAlphabetic /\ q[1] \notin Digits
       \/ q[Len(q)] \in Digits

\* The syllables of the word at position wi whose g2p output is phonemes.
WordSyllables(phonemes, wi) ==
    LET filtered == SelectSeq(phonemes, IsArpabetToken)
    IN  IF phonemes = <<>> \/ filtered = <<>> THEN <<>>
        ELSE
          LET r == syllabify(filtered, FALSE)
              syl_tuples == IF r.ok /\ r.val # <<>> THEN r.val
                            ELSE << << <<>>, filtered, <<>> >> >>
          IN  [ i \in 1..Len(syl_tuples) |->
                  LET syl_phonemes == syl_tuples[i][1] \o syl_tuples[i][2] \o syl_tuples[i][3]
                  IN  [ phonemes   |-> syl_phonemes,
                        word_index |-> wi,
                        stress     |-> extract_stress(syl_phonemes) ] ]

RECURSIVE TextFrom(_, _)
TextFrom(words, wi) ==
    IF wi >= Len(words) THEN <<>>
    ELSE WordSyllables(words[wi + 1], wi) \o TextFrom(words, wi + 1)

text_to_syllables(words) == TextFrom(words, 0)

(***************************************************************************)
(* speak/phonetic_distance.rs                                              *)
(***************************************************************************)
\* Articulatory features for each ARPABET phoneme.
FEATURES ==
    \* Consonants: [type, manner, place, voicing]
    ("P"  :> <<"consonant", "stop", "bilabial", "voiceless">>) @@
    ("B"  :> <<"consonant", "stop", "bilabial", "voiced">>) @@
    ("T"  :> <<"consonant", "stop", "alveolar", "voiceless">>) @@
    ("D"  :> <<"consonant", "stop", "alveolar", "voiced">>) @@
    ("K"  :> <<"consonant", "stop", "velar", "voiceless">>) @@
    ("G"  :> <<"consonant", "stop", "velar", "voiced">>) @@
    ("F"  :> <<"consonant", "fricative", "labiodental", "voiceless">>) @@
    ("V"  :> <<"consonant", "fricative", "labiodental", "voiced">>) @@
    ("TH" :> <<"consonant", "fricative", "dental", "voiceless">>) @@
    ("DH" :> <<"consonant", "fricative", "dental", "voiced">>) @@
    ("S"  :> <<"consonant", "fricative", "alveolar", "voiceless">>) @@
    ("Z"  :> <<"consonant", "fricative", "alveolar", "voiced">>) @@
    ("SH" :> <<"consonant", "fricative", "postalveolar", "voiceless">>) @@
    ("ZH" :> <<"consonant", "fricative", "postalveolar", "voiced">>) @@
    ("HH" :> <<"consonant", "fricative", "glottal", "voiceless">>) @@
    ("CH" :> <<"consonant", "affricate", "postalveolar", "voiceless">>) @@
    ("JH" :> <<"consonant", "affricate", "postalveolar", "voiced">>) @@
    ("M"  :> <<"consonant", "nasal", "bilabial", "voiced">>) @@
    ("N"  :> <<"consonant", "nasal", "alveolar", "voiced">>) @@
    ("NG" :> <<"consonant", "nasal", "velar", "voiced">>) @@
    ("L"  :> <<"consonant", "liquid", "alveolar", "voiced">>) @@
    ("R"  :> <<"consonant", "liquid", "postalveolar", "voiced">>) @@
    ("W"  :> <<"consonant", "glide", "bilabial", "voiced">>) @@
    ("Y"  :> <<"consonant", "glide", "palatal", "voiced">>) @@
    \* Vowels: [type, height, backness, roundness, tenseness]
    ("IY" :> <<"vowel", "high", "front", "unrounded", "tense">>) @@
    ("IH" :> <<"vowel", "high", "front", "unrounded", "lax">>) @@
    ("EY" :> <<"vowel", "mid", "front", "unrounded", "tense">>) @@
    ("EH" :> <<"vowel", "mid", "front", "unrounded", "lax">>) @@
    ("AE" :> <<"vowel", "low", "front", "unrounded", "lax">>) @@
    ("AA" :> <<"vowel", "low", "back", "unrounded", "tense">>) @@
    ("AH" :> <<"vowel", "mid", "central", "unrounded", "lax">>) @@
    ("AO" :> <<"vowel", "mid", "back", "rounded", "tense">>) @@
    ("OW" :> <<"vowel", "mid", "back", "rounded", "tense">>) @@
    ("UH" :> <<"vowel", "high", "back", "rounded", "lax">>) @@
    ("UW" :> <<"vowel", "high", "back", "rounded", "tense">>) @@
    ("AW" :> <<"vowel", "low", "central", "unrounded", "tense">>) @@
    ("AY" :> <<"vowel", "low", "central", "unrounded", "tense">>) @@
    ("OY" :> <<"vowel", "mid", "back", "rounded", "tense">>) @@
    ("ER" :> <<"vowel", "mid", "central", "rounded", "tense">>)

CROSS_TYPE_DISTANCE == 5

\* Strip the trailing digits of a label.
RECURSIVE strip_stress(_)
strip_stress(phoneme) ==
    IF Len(phoneme) > 0 /\ phoneme[Len(phoneme)] \in Digits
    THEN strip_stress(Front(phoneme))
    ELSE phoneme

\* FEATURES.get(base): the feature vector, or None.
FeaturesGet(base) ==
    IF Len(base) = 1 /\ base[1] \in DOMAIN FEATURES THEN Some(FEATURES[base[1]]) ELSE None

Min(x, y) == IF x < y THEN x ELSE y

Max(x, y) == IF x > y THEN x ELSE y

\* phoneme_distance without the comparison of the bases.
phoneme_distance_no_identity(a, b) ==
    LET feat_a == FeaturesGet(strip_stress(a))
        feat_b == FeaturesGet(strip_stress(b))
    IN  IF feat_a # None /\ feat_b # None
        THEN LET fa == Unwrap(feat_a)
                 fb == Unwrap(feat_b)
             IN  IF fa[1] # fb[1] THEN CROSS_TYPE_DISTANCE
                 ELSE Cardinality({ i \in 2..Min(Len(fa), Len(fb)) : fa[i] # fb[i] })
        ELSE CROSS_TYPE_DISTANCE

\* phoneme_distance that counts the type as one more feature.
phoneme_distance_counts_type(a, b) ==
    LET a_base == strip_stress(a)
        b_base == strip_stress(b)
        feat_a == FeaturesGet(a_base)
        feat_b == FeaturesGet(b_base)
    IN  IF a_base = b_base THEN 0
        ELSE IF feat_a # None /\ feat_b # None
             THEN LET fa == Unwrap(feat_a)
                      fb == Unwrap(feat_b)
                  IN  Cardinality({ i \in 1..Min(Len(fa), Len(fb)) : fa[i] # fb[i] })
             ELSE CROSS_TYPE_DISTANCE

phoneme_distance(a, b) ==
    LET a_base == strip_stress(a)
        b_base == strip_stress(b)
        feat_a == FeaturesGet(a_base)
        feat_b == FeaturesGet(b_base)
    IN  IF a_base = b_base THEN 0
        ELSE IF feat_a # None /\ feat_b # None
             THEN LET fa == Unwrap(feat_a)
                      fb == Unwrap(feat_b)
                  IN  IF fa[1] # fb[1] THEN CROSS_TYPE_DISTANCE
                      ELSE Cardinality({ i \in 2..Min(Len(fa), Len(fb)) : fa[i] # fb[i] })
             ELSE CROSS_TYPE_DISTANCE

\* SyllableDistanceFrom that stops at the end of the shorter sequence.
RECURSIVE SyllableDistanceFrom_shorter(_, _, _)
SyllableDistanceFrom_shorter(a, b, i) ==
    IF i > Min(Len(a), Len(b)) THEN 0
    ELSE phoneme_distance(a[i], b[i]) + SyllableDistanceFrom_shorter(a, b, i + 1)

RECURSIVE SyllableDistanceFrom(_, _, _)
SyllableDistanceFrom(a, b, i) ==
    IF i > Max(Len(a), Len(b)) THEN 0
    ELSE (IF i <= Len(a) /\ i <= Len(b) THEN phoneme_distance(a[i], b[i])
          ELSE CROSS_TYPE_DISTANCE)
         + SyllableDistanceFrom(a, b, i + 1)

syllable_distance(a, b) == SyllableDistanceFrom(a, b, 1)

(***************************************************************************)
(* speak/matcher.rs.  A SyllableEntry is modelled by the fields the        *)
(* matcher reads: phoneme_labels, stress, source_path and index.           *)
(***************************************************************************)
CONTINUITY_BONUS == 7

I32_MAX == 2147483647

\* are_adjacent that does not compare the sources.
are_adjacent_any_source(a, b) == b.index = a.index + 1

\* True if b immediately follows a in the same source file.
are_adjacent(a, b) == a.source_path = b.source_path /\ b.index = a.index + 1

\* ArgMinFirst that returns the last position of the minimum.
ArgMinFirst_last(row) ==
    CHOOSE k \in 1..Len(row) :
        /\ \A m \in 1..Len(row) : row[k] <= row[m]
        /\ \A m \in (k + 1)..Len(row) : row[m] > row[k]

\* First position of the minimum of a row, as Iterator::min_by returns it.
ArgMinFirst(row) ==
    CHOOSE k \in 1..Len(row) :
        /\ \A m \in 1..Len(row) : row[k] <= row[m]
        /\ \A m \in 1..(k - 1) : row[m] > row[k]

\* The stress hint of target i (1-based): target_stresses is None or Some
\* sequence of hints, each None or Some stress.
StressHint(target_stresses, i) ==
    IF target_stresses = None THEN None
    ELSE IF i <= Len(Unwrap(target_stresses)) THEN Unwrap(target_stresses)[i]
    ELSE None

\* Dists without the stress penalty.
Dists_no_penalty(target_syllables, bk, target_stresses) ==
    Vec([ i \in 1..Len(target_syllables) |->
        Vec([ j \in 1..Len(bk) |->
            10 * syllable_distance(target_syllables[i], bk[j].phoneme_labels) ]) ])

\* Pairwise distances in tenths, with the 0.1 stress penalty.
Dists(target_syllables, bk, target_stresses) ==
    Vec([ i \in 1..Len(target_syllables) |->
        Vec([ j \in 1..Len(bk) |->
            LET stress == StressHint(target_stresses, i)
                d == syllable_distance(target_syllables[i], bk[j].phoneme_labels)
                penalty == IF stress # None /\ bk[j].stress # stress THEN 1 ELSE 0
            IN  10 * d + penalty ]) ])

\* pred[j] = k for the first k such that bank[k] -> bank[j], or None.
PredMap(bk) ==
    Vec([ j \in 1..Len(bk) |->
        IF \E k \in 1..Len(bk) : are_adjacent(bk[k], bk[j])
        THEN Some(CHOOSE k \in 1..Len(bk) :
                      /\ are_adjacent(bk[k], bk[j])
                      /\ \A m \in 1..(k - 1) : ~are_adjacent(bk[m], bk[j]))
        ELSE None ])

\* ViterbiRow that takes the contiguous cost and leaves best_k at min_k.
ViterbiRow_parent_stays(dp, dist_row, pred, bonus10) ==
    LET min_k    == ArgMinFirst(dp)
        min_prev == dp[min_k]
        cell(j)  ==
            LET cost == dist_row[j]
                best == min_prev + cost
            IN  IF pred[j] # None /\ dp[Unwrap(pred[j])] + cost - bonus10 < best
                THEN dp[Unwrap(pred[j])] + cost - bonus10
                ELSE best
    IN  [ dp |-> Vec([ j \in 1..Len(dp) |-> cell(j) ]),
          parent |-> Vec([ j \in 1..Len(dp) |-> min_k ]) ]

\* ViterbiRow that does not subtract the bonus from the contiguous cost.
ViterbiRow_no_bonus(dp, dist_row, pred, bonus10) ==
    LET min_k    == ArgMinFirst(dp)
        min_prev == dp[min_k]
        cell(j)  ==
            LET cost == dist_row[j]
                best == min_prev + cost
            IN  IF pred[j] # None /\ dp[Unwrap(pred[j])] + cost < best
                THEN [ best |-> dp[Unwrap(pred[j])] + cost, best_k |-> Unwrap(pred[j]) ]
                ELSE [ best |-> best, best_k |-> min_k ]
        cells == Vec([ j \in 1..Len(dp) |-> cell(j) ])
    IN  [ dp |-> Vec([ j \in 1..Len(dp) |-> cells[j].best ]),
          parent |-> Vec([ j \in 1..Len(dp) |-> cells[j].best_k ]) ]

\* One row of the forward pass: the new dp row and the parents of the row.
ViterbiRow(dp, dist_row, pred, bonus10) ==
    LET min_k    == ArgMinFirst(dp)
        min_prev == dp[min_k]
        cell(j)  ==
            LET cost == dist_row[j]
                best == min_prev + cost
            IN  IF pred[j] # None /\ dp[Unwrap(pred[j])] + cost - bonus10 < best
                THEN [ best |-> dp[Unwrap(pred[j])] + cost - bonus10,
                       best_k |-> Unwrap(pred[j]) ]
                ELSE [ best |-> best, best_k |-> min_k ]
        cells == Vec([ j \in 1..Len(dp) |-> cell(j) ])
    IN  [ dp |-> Vec([ j \in 1..Len(dp) |-> cells[j].best ]),
          parent |-> Vec([ j \in 1..Len(dp) |-> cells[j].best_k ]) ]

\* The forward pass over the rows i..n of dists.
RECURSIVE Forward(_, _, _, _, _, _)
Forward(dists, pred, bonus10, i, dp, parents) ==
    IF i > Len(dists) THEN [ dp |-> dp, parents |-> parents ]
    ELSE LET row == ViterbiRow(dp, dists[i], pred, bonus10)
         IN  Forward(dists, pred, bonus10, i + 1, row.dp, Append(parents, row.parent))

\* The backtrace without its final path.reverse(): last target first.
RECURSIVE Backtrace_no_reverse(_, _, _)
Backtrace_no_reverse(parents, i, j) ==
    IF i = 1 THEN <<j>>
    ELSE <<j>> \o Backtrace_no_reverse(parents, i - 1, parents[i][j])

\* The backtrace: the bank position chosen for every target, first to last.
RECURSIVE Backtrace(_, _, _)
Backtrace(parents, i, j) ==
    IF i = 1 THEN <<j>>
    ELSE Append(Backtrace(parents, i - 1, parents[i][j]), j)

\* ReportedDistance that rounds up.
ReportedDistance_rounds_up(d10) == (d10 + 9) \div 10

\* The f64 cost (in tenths) reported as an i32: "as i32" truncates.
ReportedDistance(d10) == d10 \div 10

\* Results that stores the bank position as target_index.
Results_bank_position(target_syllables, bk, dists, path) ==
    Vec([ i \in 1..Len(target_syllables) |->
        [ target_phonemes |-> target_syllables[i],
          entry           |-> bk[path[i]],
          distance        |-> ReportedDistance(dists[i][path[i]]),
          target_index    |-> path[i] - 1 ] ])

\* One MatchResult per target position, from the path of bank positions.
Results(target_syllables, bk, dists, path) ==
    Vec([ i \in 1..Len(target_syllables) |->
        [ target_phonemes |-> target_syllables[i],
          entry           |-> bk[path[i]],
          distance        |-> ReportedDistance(dists[i][path[i]]),
          target_index    |-> i - 1 ] ])

match_syllables(target_syllables, bk, target_stresses, continuity_bonus) ==
    LET n == Len(target_syllables)
        b == Len(bk)
    IN  IF n = 0 \/ b = 0 THEN <<>>
        ELSE
          LET bonus == IF continuity_bonus = None THEN CONTINUITY_BONUS
                       ELSE Unwrap(continuity_bonus)
              dists == Dists(target_syllables, bk, target_stresses)
              pred  == PredMap(bk)
              fwd   == Forward(dists, pred, 10 * bonus, 2, dists[1], << Vec([ j \in 1..b |-> 1 ]) >>)
              best_last == ArgMinFirst(fwd.dp)
              path  == Backtrace(fwd.parents, n, best_last)
          IN  Results(target_syllables, bk, dists, path)

\* The bank flattened into (phoneme label, entry) pairs.
RECURSIVE FlatBank(_)
FlatBank(bk) ==
    IF bk = <<>> THEN <<>>
    ELSE Vec([ k \in 1..Len(bk[1].phoneme_labels) |->
                [ label |-> bk[1].phoneme_labels[k], entry |-> bk[1] ] ])
         \o FlatBank(Tail(bk))

\* ScanFlat that also takes a label as near as the best so far.
RECURSIVE ScanFlat_takes_equal(_, _, _, _, _)
ScanFlat_takes_equal(target_ph, flat, k, best_dist, best_entry) ==
    IF k > Len(flat) THEN [ best_dist |-> best_dist, best_entry |-> best_entry ]
    ELSE LET d == phoneme_distance(target_ph, flat[k].label)
         IN  IF d <= best_dist
             THEN IF d = 0 THEN [ best_dist |-> d, best_entry |-> Some(flat[k].entry) ]
                  ELSE ScanFlat_takes_equal(target_ph, flat, k + 1, d, Some(flat[k].entry))
             ELSE ScanFlat_takes_equal(target_ph, flat, k + 1, best_dist, best_entry)

\* The scan of one target phoneme over flat[k..], with its early stop.
RECURSIVE ScanFlat(_, _, _, _, _)
ScanFlat(target_ph, flat, k, best_dist, best_entry) ==
    IF k > Len(flat) THEN [ best_dist |-> best_dist, best_entry |-> best_entry ]
    ELSE LET d == phoneme_distance(target_ph, flat[k].label)
         IN  IF d < best_dist
             THEN IF d = 0 THEN [ best_dist |-> d, best_entry |-> Some(flat[k].entry) ]
                  ELSE ScanFlat(target_ph, flat, k + 1, d, Some(flat[k].entry))
             ELSE ScanFlat(target_ph, flat, k + 1, best_dist, best_entry)

\* match_phonemes: the results, or a panic when best_entry.unwrap() meets None.
match_phonemes(target_phonemes, bk) ==
    LET flat  == FlatBank(bk)
        scans == Vec([ i \in 1..Len(target_phonemes) |->
                         ScanFlat(target_phonemes[i], flat, 1, I32_MAX, None) ])
    IN  IF \E i \in 1..Len(target_phonemes) : scans[i].best_entry = None
        THEN [ panicked |-> TRUE, results |-> <<>> ]
        ELSE [ panicked |-> FALSE,
               results  |-> Vec([ i \in 1..Len(target_phonemes) |->
                               [ target_phonemes |-> << target_phonemes[i] >>,
                                 entry           |-> Unwrap(scans[i].best_entry),
                                 distance        |-> scans[i].best_dist,
                                 target_index    |-> i - 1 ] ]) ]

(***************************************************************************)
(* Specification of the syllabifier: a pronunciation is drawn, then one of *)
(* the entry points is applied to it.                                      *)
(***************************************************************************)
Idle == [op |-> "none"]

InitSyl ==
    /\ pc = "ready"
    /\ pron \in SeqsUpTo(PronLabels, MaxPronLen)
    /\ syl_out = Idle
    /\ targets = <<>>
    /\ bank = <<>>
    /\ matches = Idle
    /\ args = Idle
    /\ ret = Idle

Syllabify ==
    /\ pc = "ready"
    /\ \E alaska_rule \in BOOLEAN :
         syl_out' = [op |-> "syllabify", alaska_rule |-> alaska_rule,
                     res |-> syllabify(pron, alaska_rule)]
    /\ pc' = "done"
    /\ UNCHANGED <<pron, targets, bank, matches, args, ret>>

SyllabifyWord ==
    /\ pc = "ready"
    /\ syl_out' = [op |-> "syllabify_word", syllables |-> syllabify_word(pron, 0)]
    /\ pc' = "done"
    /\ UNCHANGED <<pron, targets, bank, matches, args, ret>>

\* text_to_syllables on a text of one word whose pronunciation is pron.
TextToSyllables ==
    /\ pc = "ready"
    /\ syl_out' = [op |-> "text_to_syllables", syllables |-> text_to_syllables(<<pron>>)]
    /\ pc' = "done"
    /\ UNCHANGED <<pron, targets, bank, matches, args, ret>>

NextSyl == Syllabify \/ SyllabifyWord \/ TextToSyllables

SpecSyl == InitSyl /\ [][NextSyl]_vars

(***************************************************************************)
(* Specifications of the matcher: target syllables and a bank are drawn,   *)
(* then the targets are matched in syllable mode (SpecMatch) or, flattened *)
(* to phonemes as run_speak does, in phoneme mode (SpecPhon).              *)
(***************************************************************************)
MaxBank == 3

MaxTargets == 2

\* Syllables at distance 0 (differing in stress only) and 6 of each other;
\* the last one has no stress digit.
SylLabels == { << <<"K">>, <<"AE","1">> >>, << <<"K">>, <<"AE","0">> >>, << <<"G">> >> }

\* Target syllables: a stressed one and one without a stress digit.
TargetLabels == { << <<"K">>, <<"AE","1">> >>, << <<"G">> >> }

\* (source_path, index) of the entries: three consecutive syllables of one
\* source and a syllable of another.
BankKeys == { <<"a.wav", 0>>, <<"a.wav", 1>>, <<"a.wav", 2>>, <<"b.wav", 0>> }

\* Custom values of continuity_bonus; None stands for the default.
BonusValues == { 0, 6 }

Entries ==
    { [ phoneme_labels |-> l, stress |-> extract_stress(l),
        source_path |-> k[1], index |-> k[2] ] : l \in SylLabels, k \in BankKeys }

\* Banks as build_bank makes them: no two entries share (source_path, index).
Banks ==
    { bk \in SeqsUpTo(Entries, MaxBank) :
        \A x, y \in 1..Len(bk) :
            (x # y) => << bk[x].source_path, bk[x].index >> # << bk[y].source_path, bk[y].index >> }

RECURSIVE Concat(_)
Concat(ss) == IF ss = <<>> THEN <<>> ELSE ss[1] \o Concat(Tail(ss))

InitMatch ==
    /\ pc = "ready"
    /\ pron = <<>>
    /\ syl_out = Idle
    /\ targets \in SeqsUpTo(TargetLabels, MaxTargets)
    /\ bank \in Banks
    /\ matches = Idle
    /\ args = Idle
    /\ ret = Idle

\* The calls made: with the stress hints of the targets, as run_speak calls
\* it, under every bonus; and without hints under the default bonus.
Calls ==
    { [ continuity_bonus |-> b, with_stress |-> TRUE ] :
        b \in { None } \cup { Some(v) : v \in BonusValues } }
    \cup { [ continuity_bonus |-> None, with_stress |-> FALSE ] }

MatchSyllables ==
    /\ pc = "ready"
    /\ \E c \in Calls :
         LET target_stresses ==
                 IF c.with_stress
                 THEN Some([ i \in 1..Len(targets) |-> extract_stress(targets[i]) ])
                 ELSE None
         IN  matches' = [ op |-> "match_syllables",
                          continuity_bonus |-> c.continuity_bonus,
                          target_stresses  |-> target_stresses,
                          panicked |-> FALSE,
                          results  |-> match_syllables(targets, bank, target_stresses,
                                                       c.continuity_bonus) ]
    /\ pc' = "done"
    /\ UNCHANGED <<pron, syl_out, targets, bank, args, ret>>

MatchPhonemes ==
    /\ pc = "ready"
    /\ LET r == match_phonemes(Concat(targets), bank)
       IN  matches' = [ op |-> "match_phonemes", panicked |-> r.panicked,
                        results |-> r.results ]
    /\ pc' = "done"
    /\ UNCHANGED <<pron, syl_out, targets, bank, args, ret>>

NextMatch == MatchSyllables

SpecMatch == InitMatch /\ [][NextMatch]_vars

NextPhon == MatchPhonemes

SpecPhon == InitMatch /\ [][NextPhon]_vars

(***************************************************************************)
(* Properties of the matcher.  The costs are restated here from the        *)
(* definition of the alignment problem, in tenths.                         *)
(***************************************************************************)
IsSyl == pc = "done" /\ matches.op = "match_syllables"

IsPhon == pc = "done" /\ matches.op = "match_phonemes"

EffBonus ==
    IF matches.continuity_bonus = None THEN CONTINUITY_BONUS
    ELSE Unwrap(matches.continuity_bonus)

Hint(i) ==
    IF matches.target_stresses = None THEN None ELSE Unwrap(matches.target_stresses)[i]

\* D[i][.] for an entry e: the syllable distance plus the stress penalty.
D10(i, e) ==
    10 * syllable_distance(targets[i], e.phoneme_labels)
    + (IF Hint(i) # None /\ e.stress # Hint(i) THEN 1 ELSE 0)

\* f is the contiguous successor of e.
Contig(e, f) == e.source_path = f.source_path /\ f.index = e.index + 1

\* The table of D10 over target positions and bank positions, the table of
\* Contig over pairs of bank positions, and the bank positions returned.
DTable ==
    Vec([ i \in 1..Len(targets) |-> Vec([ j \in 1..Len(bank) |-> D10(i, bank[j]) ]) ])

ContigTable ==
    Vec([ k \in 1..Len(bank) |-> Vec([ j \in 1..Len(bank) |-> Contig(bank[k], bank[j]) ]) ])

ChosenPositions ==
    Vec([ i \in 1..Len(matches.results) |->
            CHOOSE j \in 1..Len(bank) : bank[j] = matches.results[i].entry ])

RECURSIVE PathCostFrom(_, _, _, _, _)
PathCostFrom(dt, ct, v10, p, i) ==
    IF i > Len(dt) THEN 0
    ELSE dt[i][p[i]]
         - (IF i > 1 /\ ct[p[i - 1]][p[i]] THEN v10 ELSE 0)
         + PathCostFrom(dt, ct, v10, p, i + 1)

\* Total cost of matching target i to the bank entry at position p[i]: the
\* distances, less the bonus for every contiguous step.
PathCost(dt, ct, v10, p) == PathCostFrom(dt, ct, v10, p, 1)

\* C2: for a non-empty bank with pairwise distinct (source, index), non-empty
\* targets and a bonus >= 0, the entries returned by match_syllables minimise
\* the total cost over all sequences of bank positions.
ViterbiOptimal ==
    (IsSyl /\ targets # <<>> /\ bank # <<>> /\ EffBonus >= 0) =>
        LET dt  == DTable
            ct  == ContigTable
            v10 == 10 * EffBonus
            got == PathCost(dt, ct, v10, ChosenPositions)
        IN  \A p \in [ 1..Len(targets) -> 1..Len(bank) ] : got <= PathCost(dt, ct, v10, p)

\* The bonus made a contiguous pair win over a phonetically closer one.
ViterbiOptimalWitness ==
    /\ IsSyl /\ Len(targets) = 2 /\ Len(bank) >= 3
    /\ Contig(matches.results[1].entry, matches.results[2].entry)
    /\ matches.results[2].distance > 0
    /\ \E m \in 1..Len(bank) : D10(2, bank[m]) = 0

\* Entry j is the only entry at distance 0 of target i, and has its labels.
UniqueExact(i, j) ==
    /\ bank[j].phoneme_labels = targets[i]
    /\ \A m \in 1..Len(bank) :
         (m # j) => syllable_distance(targets[i], bank[m].phoneme_labels) # 0

ExactChosen ==
    \A i \in 1..Len(targets), j \in 1..Len(bank) :
        (bank[j].phoneme_labels = targets[i] /\ UniqueExact(i, j)) =>
            /\ matches.results[i].entry = bank[j]
            /\ matches.results[i].distance = 0

\* C3 as stated: for targets of any length, a target position with a unique
\* exact entry in the bank is matched to it, with distance 0.
ExactSelectedAnyLength == IsSyl => ExactChosen

\* C3 as amended: the same, for a single target syllable or a bonus of 0.
ExactSelected == (IsSyl /\ (Len(targets) = 1 \/ EffBonus = 0)) => ExactChosen

ExactSelectedWitness ==
    /\ IsSyl /\ Len(targets) = 1 /\ Len(bank) >= 2
    /\ UniqueExact(1, Len(bank))
    /\ matches.results[1].entry = bank[Len(bank)]

\* Entries k, j are an exact contiguous pair for the two targets, and m is
\* another exact entry for the second target, not contiguous with k.
ExactPairAndRival(k, j, m) ==
    /\ Contig(bank[k], bank[j])
    /\ bank[k].phoneme_labels = targets[1]
    /\ bank[j].phoneme_labels = targets[2]
    /\ m # j
    /\ bank[m].phoneme_labels = targets[2]
    /\ ~Contig(bank[k], bank[m])

\* C4: with two targets and the default bonus, when the bank holds an exact
\* contiguous pair and an equally exact, non-contiguous entry for the second
\* target, the two entries returned are contiguous and exact, wherever the
\* entries stand in the bank.
ContiguousPairPreferred ==
    (/\ IsSyl /\ Len(targets) = 2 /\ matches.continuity_bonus = None
     /\ \E k, j, m \in 1..Len(bank) : ExactPairAndRival(k, j, m)) =>
        /\ Contig(matches.results[1].entry, matches.results[2].entry)
        /\ matches.results[1].distance = 0
        /\ matches.results[2].distance = 0

\* The rival is in another source and stands before the pair in the bank.
ContiguousPairPreferredWitness ==
    /\ IsSyl /\ Len(targets) = 2 /\ matches.continuity_bonus = None
    /\ \E k, j, m \in 1..Len(bank) :
         /\ ExactPairAndRival(k, j, m) /\ m < k /\ m < j /\ k # j
         /\ bank[m].source_path # bank[k].source_path
    /\ Contig(matches.results[1].entry, matches.results[2].entry)

SetMin(S) == CHOOSE x \in S : \A y \in S : x <= y

BankPairs == (1..Len(bank)) \X (1..Len(bank))

\* Summed distance of the best pair of entries that is not contiguous.
BestNonContiguous(dt, ct) ==
    SetMin({ dt[1][pq[1]] + dt[2][pq[2]] : pq \in { x \in BankPairs : ~ct[x[1]][x[2]] } })

\* Some contiguous pair is worse than the best non-contiguous pair by less
\* than the bonus.
ContiguousWithinBonus ==
    LET dt   == DTable
        ct   == ContigTable
        best == BestNonContiguous(dt, ct)
    IN  \E pq \in BankPairs :
            ct[pq[1]][pq[2]] /\ dt[1][pq[1]] + dt[2][pq[2]] - best < 10 * EffBonus

\* C5: with two targets and a bonus V > 0, when some contiguous pair is worse
\* than the best non-contiguous pair by less than V, the two entries returned
\* are a contiguous pair.
BonusDecides ==
    (IsSyl /\ Len(targets) = 2 /\ bank # <<>> /\ EffBonus > 0 /\ ContiguousWithinBonus) =>
        Contig(matches.results[1].entry, matches.results[2].entry)

\* A contiguous pair that is phonetically worse than a non-contiguous one wins.
BonusDecidesWitness ==
    /\ IsSyl /\ Len(targets) = 2 /\ bank # <<>> /\ EffBonus > 0
    /\ ContiguousWithinBonus
    /\ BestNonContiguous(DTable, ContigTable) = 0
    /\ matches.results[1].distance + matches.results[2].distance > 0
    /\ Contig(matches.results[1].entry, matches.results[2].entry)

\* C6: match_phonemes returns an empty list, without panicking, when there is
\* no target phoneme or the bank is empty or holds no label.
PhonemesEmptyOnEmptyInput ==
    (IsPhon /\ (Concat(targets) = <<>> \/ bank = <<>> \/ FlatBank(bank) = <<>>)) =>
        /\ ~matches.panicked
        /\ matches.results = <<>>

\* C7: match_syllables returns an empty list when the targets or the bank are
\* empty, and otherwise one result per target position, in target order.
SyllablesOnePerTarget ==
    IsSyl =>
        /\ ~matches.panicked
        /\ (targets = <<>> \/ bank = <<>>) => matches.results = <<>>
        /\ (targets # <<>> /\ bank # <<>>) =>
              /\ Len(matches.results) = Len(targets)
              /\ \A i \in 1..Len(targets) :
                   /\ matches.results[i].target_index = i - 1
                   /\ matches.results[i].target_phonemes = targets[i]

SyllablesOnePerTargetWitness ==
    /\ IsSyl /\ Len(targets) = 2 /\ Len(bank) >= 2
    /\ Len(matches.results) = 2
    /\ targets[1] # targets[2]
    /\ matches.results[2].target_index = 1

(***************************************************************************)
(* Properties of the syllabifier                                           *)
(***************************************************************************)
HasVowel(p) == \E j \in 1..Len(p) : p[j] \in VOWELS

Called(op) == pc = "done" /\ syl_out.op = op

\* C1: for every pronunciation with at least one vowel and either value of
\* the flag, syllabify succeeds and onset+nucleus+coda of the syllables, in
\* order, is the pronunciation.
SegmentationComplete ==
    (Called("syllabify") /\ HasVowel(pron)) =>
        /\ syl_out.res.ok
        /\ syl_out.res.err = ""
        /\ Flat(syl_out.res.val) = pron

\* An interlude was resolved with a symbol moved into a nucleus.
SegmentationCompleteWitness ==
    /\ Called("syllabify") /\ HasVowel(pron)
    /\ syl_out.res.ok
    /\ \E i \in 1..Len(syl_out.res.val) : Len(syl_out.res.val[i][2]) > 1

\* C8: a non-empty pronunciation without a vowel is a segmentation failure
\* (the no-vowel one, with no syllables), for either value of the flag.
NoVowelFails ==
    (Called("syllabify") /\ pron # <<>> /\ ~HasVowel(pron)) =>
        /\ ~syl_out.res.ok
        /\ syl_out.res.err = "no vowels found"
        /\ syl_out.res.val = <<>>

NoVowelFailsWitness ==
    /\ Called("syllabify") /\ Len(pron) >= 2 /\ ~HasVowel(pron)
    /\ ~syl_out.res.ok

\* C9 as stated: every input without a vowel, the empty one included, is a
\* failure, and no successful result has zero syllables.
SuccessOnlyWithNucleus ==
    Called("syllabify") =>
        /\ ~HasVowel(pron) => ~syl_out.res.ok
        /\ syl_out.res.ok => Len(syl_out.res.val) >= 1

\* C9 as amended: syllabify fails on every non-empty input without a vowel;
\* the empty input is a success with zero syllables, and it is the only
\* input whose successful result has zero syllables.
SuccessZeroOnlyWhenEmpty ==
    Called("syllabify") =>
        /\ (pron # <<>> /\ ~HasVowel(pron)) => ~syl_out.res.ok
        /\ pron = <<>> => (syl_out.res.ok /\ syl_out.res.val = <<>>)
        /\ (syl_out.res.ok /\ syl_out.res.val = <<>>) => pron = <<>>

SuccessZeroOnlyWhenEmptyWitness ==
    Called("syllabify") /\ pron = <<>> /\ syl_out.res.ok

\* C10: when syllabify fails on a word, syllabify_word and text_to_syllables
\* emit exactly one syllable for it, holding all its phonemes in order.
CallersFallBack ==
    /\ (Called("syllabify_word") /\ ~syllabify(pron, TRUE).ok) =>
          /\ Len(syl_out.syllables) = 1
          /\ syl_out.syllables[1].phonemes = pron
    /\ (Called("text_to_syllables") /\ ~syllabify(SelectSeq(pron, IsArpabetToken), FALSE).ok) =>
          /\ Len(syl_out.syllables) = 1
          /\ syl_out.syllables[1].phonemes = SelectSeq(pron, IsArpabetToken)

CallersFallBackWitness ==
    /\ Called("syllabify_word")
    /\ Len(pron) >= 2 /\ ~HasVowel(pron)
    /\ Len(syl_out.syllables) = 1

(***************************************************************************)
(* speak/syllable_bank.rs and normalize_phoneme.  The labels an aligner    *)
(* gives are held character by character: a character is a one-character   *)
(* string, or "U+xxxx" for a character outside ASCII ("U+00E6" is the IPA  *)
(* ash, "U+02D0" the IPA length mark).  A syllable is the sequence of the  *)
(* labels of its phonemes; the times and the word of a syllable, which     *)
(* build_bank copies, are left out.                                        *)
(***************************************************************************)
UpperChars ==
    { "A", "B", "C", "D", "E", "F", "G", "H", "I", "J", "K", "L", "M", "N",
      "O", "P", "Q", "R", "S", "T", "U", "V", "W", "X", "Y", "Z" }

LowerChars ==
    { "a", "b", "c", "d", "e", "f", "g", "h", "i", "j", "k", "l", "m", "n",
      "o", "p", "q", "r", "s", "t", "u", "v", "w", "x", "y", "z" }

\* The characters outside ASCII of the IPA table and the two length marks:
\* all of them are alphabetic, none is uppercase.
NonAsciiChars ==
    { "U+00E6", "U+00E7", "U+00F0", "U+014B", "U+0250", "U+0251", "U+0252",
      "U+0254", "U+0259", "U+025B", "U+025C", "U+0263", "U+0265", "U+0266",
      "U+026A", "U+026B", "U+026C", "U+026E", "U+0272", "U+0274", "U+0279",
      "U+027D", "U+027E", "U+0280", "U+0281", "U+0283", "U+028A", "U+028C",
      "U+0292", "U+02D0", "U+02D1", "U+03B8" }

LengthMarks == { "U+02D0", "U+02D1" }

IsAlphabetic(c) == c \in UpperChars \cup LowerChars \cup NonAsciiChars

IsAscii(c) == c \notin NonAsciiChars

IPA_TO_ARPABET ==
    << << <<"a", "U+026A">>, <<"A", "Y">> >>,
       << <<"a", "U+028A">>, <<"A", "W">> >>,
       << <<"e", "U+026A">>, <<"E", "Y">> >>,
       << <<"o", "U+028A">>, <<"O", "W">> >>,
       << <<"U+0254", "U+026A">>, <<"O", "Y">> >>,
       << <<"i">>, <<"I", "Y">> >>,
       << <<"U+026A">>, <<"I", "H">> >>,
       << <<"e">>, <<"E", "Y">> >>,
       << <<"U+025B">>, <<"E", "H">> >>,
       << <<"U+00E6">>, <<"A", "E">> >>,
       << <<"U+0251">>, <<"A", "A">> >>,
       << <<"U+0252">>, <<"A", "A">> >>,
       << <<"U+0254">>, <<"A", "O">> >>,
       << <<"o">>, <<"O", "W">> >>,
       << <<"U+028A">>, <<"U", "H">> >>,
       << <<"u">>, <<"U", "W">> >>,
       << <<"U+0259">>, <<"A", "H">> >>,
       << <<"U+025C">>, <<"E", "R">> >>,
       << <<"U+0250">>, <<"A", "H">> >>,
       << <<"U+028C">>, <<"A", "H">> >>,
       << <<"a">>, <<"A", "A">> >>,
       << <<"p">>, <<"P">> >>,
       << <<"b">>, <<"B">> >>,
       << <<"t">>, <<"T">> >>,
       << <<"d">>, <<"D">> >>,
       << <<"k">>, <<"K">> >>,
       << <<"g">>, <<"G">> >>,
       << <<"m">>, <<"M">> >>,
       << <<"n">>, <<"N">> >>,
       << <<"U+014B">>, <<"N", "G">> >>,
       << <<"U+0272">>, <<"N">> >>,
       << <<"U+0274">>, <<"N", "G">> >>,
       << <<"f">>, <<"F">> >>,
       << <<"v">>, <<"V">> >>,
       << <<"U+03B8">>, <<"T", "H">> >>,
       << <<"U+00F0">>, <<"D", "H">> >>,
       << <<"s">>, <<"S">> >>,
       << <<"z">>, <<"Z">> >>,
       << <<"U+0283">>, <<"S", "H">> >>,
       << <<"U+0292">>, <<"Z", "H">> >>,
       << <<"h">>, <<"H", "H">> >>,
       << <<"U+0266">>, <<"H", "H">> >>,
       << <<"U+00E7">>, <<"H", "H">> >>,
       << <<"x">>, <<"H", "H">> >>,
       << <<"U+0263">>, <<"G">> >>,
       << <<"l">>, <<"L">> >>,
       << <<"U+026B">>, <<"L">> >>,
       << <<"U+026C">>, <<"L">> >>,
       << <<"U+026E">>, <<"L">> >>,
       << <<"r">>, <<"R">> >>,
       << <<"U+0279">>, <<"R">> >>,
       << <<"U+027E">>, <<"R">> >>,
       << <<"U+027D">>, <<"R">> >>,
       << <<"U+0281">>, <<"R">> >>,
       << <<"U+0280">>, <<"R">> >>,
       << <<"j">>, <<"Y">> >>,
       << <<"w">>, <<"W">> >>,
       << <<"U+0265">>, <<"W">> >> >>

\* True if label is a real phoneme (not punctuation or empty).
is_phoneme(label) == label # <<>> /\ IsAlphabetic(label[1])

\* trim_end_matches of the IPA length marks.
RECURSIVE TrimLengthMarks(_)
TrimLengthMarks(s) ==
    IF Len(s) > 0 /\ s[Len(s)] \in LengthMarks THEN TrimLengthMarks(Front(s)) ELSE s

StartsWith(s, prefix) ==
    Len(prefix) <= Len(s) /\ SubSeq(s, 1, Len(prefix)) = prefix

\* The ARPABET symbol of the first row of IPA_TO_ARPABET, from row k on,
\* that cleaned starts with; None if there is no such row.
RECURSIVE IpaLookup(_, _)
IpaLookup(cleaned, k) ==
    IF k > Len(IPA_TO_ARPABET) THEN None
    ELSE IF StartsWith(cleaned, IPA_TO_ARPABET[k][1]) THEN Some(IPA_TO_ARPABET[k][2])
    ELSE IpaLookup(cleaned, k + 1)

\* normalize_phoneme that maps every label through the IPA table.
normalize_phoneme_always_ipa(phoneme) ==
    LET hit == IpaLookup(TrimLengthMarks(phoneme), 1)
    IN  IF hit # None THEN Unwrap(hit) ELSE <<"?">>

\* Convert an IPA phoneme to ARPABET if possible, passthrough otherwise.
normalize_phoneme(phoneme) ==
    IF phoneme = <<>> THEN phoneme
    ELSE LET base == strip_stress(phoneme)
         IN  IF /\ base # <<>>
                /\ \A i \in 1..Len(base) : IsAscii(base[i])
                /\ \A i \in 1..Len(base) : base[i] \in UpperChars
             THEN phoneme
             ELSE LET hit == IpaLookup(TrimLengthMarks(phoneme), 1)
                  IN  IF hit # None THEN Unwrap(hit) ELSE phoneme

\* The labels build_bank keeps of a syllable: filter, then map.
BankLabels(syl) ==
    LET kept == SelectSeq(syl, is_phoneme)
    IN  Vec([ k \in 1..Len(kept) |-> normalize_phoneme(kept[k]) ])

\* BuildFrom that numbers the entries as it emits them.
RECURSIVE BuildFrom_renumbers(_, _, _, _)
BuildFrom_renumbers(syllables, source_path, i, entries) ==
    IF i >= Len(syllables) THEN entries
    ELSE LET labels == BankLabels(syllables[i + 1])
         IN  IF labels = <<>> THEN BuildFrom_renumbers(syllables, source_path, i + 1, entries)
             ELSE BuildFrom_renumbers(syllables, source_path, i + 1,
                      Append(entries, [ phoneme_labels |-> labels,
                                        stress         |-> extract_stress(labels),
                                        source_path    |-> source_path,
                                        index          |-> Len(entries) ]))

\* The loop of build_bank from the syllable at position i (0-based) on.
RECURSIVE BuildFrom(_, _, _, _)
BuildFrom(syllables, source_path, i, entries) ==
    IF i >= Len(syllables) THEN entries
    ELSE LET labels == BankLabels(syllables[i + 1])
         IN  IF labels = <<>> THEN BuildFrom(syllables, source_path, i + 1, entries)
             ELSE BuildFrom(syllables, source_path, i + 1,
                      Append(entries, [ phoneme_labels |-> labels,
                                        stress         |-> extract_stress(labels),
                                        source_path    |-> source_path,
                                        index          |-> i ]))

build_bank(syllables, source_path) == BuildFrom(syllables, source_path, 0, <<>>)

(***************************************************************************)
(* Specification of the bank builder: a list of aligned syllables is       *)
(* drawn, then build_bank is applied to it.                                *)
(***************************************************************************)
MaxSyllables == 3

\* Syllables of an aligner: without phonemes, of punctuation only, of
\* ARPABET labels, of IPA labels (plain, diphthong, with a length mark), of
\* a lowercase ASCII label, and mixed.
RawSyllables ==
    { <<>>,
      << <<".">> >>,
      << <<>>, <<",">> >>,
      << <<"K">> >>,
      << <<".">>, <<"K">>, <<"A", "E", "1">> >>,
      << <<"k">>, <<".">>, <<"U+00E6">> >>,
      << <<"a", "U+026A">>, <<"i", "U+02D0">> >>,
      << <<"s", "p", "n">>, <<"1">> >> }

InitBank ==
    /\ pc = "ready"
    /\ pron = <<>>
    /\ syl_out = Idle
    /\ targets = <<>>
    /\ bank = <<>>
    /\ matches = Idle
    /\ args \in { [ op |-> "build_bank", syllables |-> ss, source_path |-> "a.wav" ] :
                    ss \in SeqsUpTo(RawSyllables, MaxSyllables) }
    /\ ret = Idle

BuildBank ==
    /\ pc = "ready"
    /\ args.op = "build_bank"
    /\ bank' = build_bank(args.syllables, args.source_path)
    /\ pc' = "done"
    /\ UNCHANGED <<pron, syl_out, targets, matches, args, ret>>

NextBank == BuildBank

SpecBank == InitBank /\ [][NextBank]_vars

(***************************************************************************)
(* Properties of the bank builder.                                         *)
(***************************************************************************)
Built == pc = "done" /\ args.op = "build_bank"

\* A real phoneme label: not empty, first character alphabetic.
RealLabel(label) == Len(label) > 0 /\ IsAlphabetic(label[1])

\* Positions (0-based) of the input syllables with at least one real label.
RealPositions ==
    { i \in 0..(Len(args.syllables) - 1) :
        \E k \in 1..Len(args.syllables[i + 1]) : RealLabel(args.syllables[i + 1][k]) }

\* C11: every entry of the bank carries the position of its syllable in the
\* input list: the index is a position of a syllable with a real label, the
\* indices increase strictly along the bank, and the positions of the
\* syllables skipped stay unused.
IndexIsInputPosition ==
    Built =>
        /\ \A x \in 1..Len(bank) : bank[x].index \in RealPositions
        /\ \A x \in 1..Len(bank) :
             bank[x].phoneme_labels = BankLabels(args.syllables[bank[x].index + 1])
        /\ \A x, y \in 1..Len(bank) : (x < y) => bank[x].index < bank[y].index

\* Three syllables, the middle one of punctuation only: indices 0 and 2.
IndexIsInputPositionWitness ==
    /\ Built
    /\ Len(args.syllables) = 3
    /\ RealPositions = { 0, 2 }
    /\ Len(bank) = 2 /\ bank[1].index = 0 /\ bank[2].index = 2

\* Uppercase ASCII letters, then stress digits.
ArpabetForm(label) ==
    LET base == strip_stress(label)
    IN  base # <<>> /\ \A i \in 1..Len(base) : base[i] \in UpperChars

\* C12: the bank has exactly one entry for every syllable with a real label
\* and none for the others; the labels of an entry are the real labels of its
\* syllable, in order, each normalized, those in ARPABET form unchanged.
OneEntryPerRealSyllable ==
    Built =>
        /\ Len(bank) = Cardinality(RealPositions)
        /\ { bank[x].index : x \in 1..Len(bank) } = RealPositions
        /\ \A x \in 1..Len(bank) :
             LET real == SelectSeq(args.syllables[bank[x].index + 1], RealLabel)
                 got  == bank[x].phoneme_labels
             IN  /\ Len(got) = Len(real)
                 /\ \A k \in 1..Len(real) :
                      /\ got[k] = normalize_phoneme(real[k])
                      /\ ArpabetForm(real[k]) => got[k] = real[k]

\* A syllable of punctuation is skipped, and an entry holds an ARPABET label
\* kept as it was next to an IPA label that was translated.
OneEntryPerRealSyllableWitness ==
    /\ Built
    /\ Len(bank) < Len(args.syllables)
    /\ \E x, y \in 1..Len(bank) :
         /\ bank[x].phoneme_labels = << <<"K">>, <<"A", "E", "1">> >>
         /\ bank[y].phoneme_labels = << <<"K">>, <<"A", "E">> >>

(***************************************************************************)
(* speak/assembler.rs: the grouping of the matches into runs and the       *)
(* control flow of assemble.  A match is held with the fields the          *)
(* assembler reads; the audio of a run (cut, stretch, pitch shift) is not  *)
(* modelled, only the number of clips made and whether the output file was *)
(* written.                                                                *)
(***************************************************************************)
Last(s) == s[Len(s)]

\* GroupFrom that compares with the first match of the last run.
RECURSIVE GroupFrom_first_of_run(_, _, _)
GroupFrom_first_of_run(ms, i, runs) ==
    IF i >= Len(ms) THEN runs
    ELSE LET prev == ms[Last(runs)[1] + 1].entry
             curr == ms[i + 1].entry
         IN  IF curr.source_path = prev.source_path /\ curr.index = prev.index + 1
             THEN GroupFrom_first_of_run(ms, i + 1,
                      [ runs EXCEPT ![Len(runs)] = Append(@, i) ])
             ELSE GroupFrom_first_of_run(ms, i + 1, Append(runs, <<i>>))

\* The loop of group_contiguous_runs from position i (0-based) on.
RECURSIVE GroupFrom(_, _, _)
GroupFrom(ms, i, runs) ==
    IF i >= Len(ms) THEN runs
    ELSE LET prev == ms[Last(Last(runs)) + 1].entry
             curr == ms[i + 1].entry
         IN  IF curr.source_path = prev.source_path /\ curr.index = prev.index + 1
             THEN GroupFrom(ms, i + 1, [ runs EXCEPT ![Len(runs)] = Append(@, i) ])
             ELSE GroupFrom(ms, i + 1, Append(runs, <<i>>))

\* Runs of positions (0-based) of matches from adjacent source syllables.
group_contiguous_runs(ms) ==
    IF ms = <<>> THEN <<>> ELSE GroupFrom(ms, 1, << <<0>> >>)

\* AssembleRuns that skips a run whose source is not loaded.
RECURSIVE AssembleRuns_skips(_, _, _, _, _)
AssembleRuns_skips(ms, runs, source_samples, run_idx, clips) ==
    IF run_idx >= Len(runs) THEN Ok(clips)
    ELSE LET first == runs[run_idx + 1][1]
             source_path == ms[first + 1].entry.source_path
         IN  AssembleRuns_skips(ms, runs, source_samples, run_idx + 1,
                 IF source_path \in source_samples THEN clips + 1 ELSE clips)

\* The loop of assemble over the runs: the number of clips made, or the
\* error of the first run whose source is not in source_samples.
RECURSIVE AssembleRuns(_, _, _, _, _)
AssembleRuns(ms, runs, source_samples, run_idx, clips) ==
    IF run_idx >= Len(runs) THEN Ok(clips)
    ELSE LET first == runs[run_idx + 1][1]
             source_path == ms[first + 1].entry.source_path
         IN  IF source_path \notin source_samples
             THEN Err(<< "Source audio not loaded: ", source_path >>)
             ELSE AssembleRuns(ms, runs, source_samples, run_idx + 1, clips + 1)

\* assemble: the clips are concatenated and speak.wav is written only after
\* every run was cut.
assemble(ms, source_samples) ==
    LET runs == group_contiguous_runs(ms)
        cut  == AssembleRuns(ms, runs, source_samples, 0, 0)
    IN  IF cut.ok THEN [ ok |-> TRUE, err |-> "", clips |-> cut.val, written |-> TRUE ]
        ELSE [ ok |-> FALSE, err |-> cut.err, clips |-> 0, written |-> FALSE ]

(***************************************************************************)
(* Specification of the assembler: a list of matches and the set of the    *)
(* sources whose audio is loaded are drawn, then the matches are grouped   *)
(* or assembled.                                                           *)
(***************************************************************************)
MaxMatches == 3

\* (source_path, index) of the entries matched.
MatchKeys == { <<"a.wav", 0>>, <<"a.wav", 1>>, <<"b.wav", 0>> }

Sources == { "a.wav", "b.wav" }

MatchLists ==
    { Vec([ i \in 1..Len(ks) |->
              [ target_index |-> i - 1,
                entry |-> [ source_path |-> ks[i][1], index |-> ks[i][2] ] ] ]) :
        ks \in SeqsUpTo(MatchKeys, MaxMatches) }

InitAsm ==
    /\ pc = "ready"
    /\ pron = <<>>
    /\ syl_out = Idle
    /\ targets = <<>>
    /\ bank = <<>>
    /\ matches = Idle
    /\ args \in { [ op |-> "assemble", matches |-> ms, source_samples |-> loaded ] :
                    ms \in MatchLists, loaded \in SUBSET Sources }
    /\ ret = Idle

GroupContiguousRuns ==
    /\ pc = "ready"
    /\ args.op = "assemble"
    /\ ret' = [ op |-> "group_contiguous_runs", runs |-> group_contiguous_runs(args.matches) ]
    /\ pc' = "done"
    /\ UNCHANGED <<pron, syl_out, targets, bank, matches, args>>

Assemble ==
    /\ pc = "ready"
    /\ args.op = "assemble"
    /\ ret' = [ op |-> "assemble", res |-> assemble(args.matches, args.source_samples) ]
    /\ pc' = "done"
    /\ UNCHANGED <<pron, syl_out, targets, bank, matches, args>>

NextAsm == GroupContiguousRuns \/ Assemble

SpecAsm == InitAsm /\ [][NextAsm]_vars

(***************************************************************************)
(* Properties of the assembler.                                            *)
(***************************************************************************)
Grouped == pc = "done" /\ ret.op = "group_contiguous_runs"

Assembled == pc = "done" /\ ret.op = "assemble"

\* The run (its position in runs) that holds position i.
RunOf(runs, i) == CHOOSE r \in 1..Len(runs) : \E k \in 1..Len(runs[r]) : runs[r][k] = i

\* The match at position i + 1 continues the match at position i.
Continues(i) ==
    LET e == args.matches[i + 1].entry
        f == args.matches[i + 2].entry
    IN  f.source_path = e.source_path /\ f.index = e.index + 1

\* C13: the runs are non-empty, their concatenation is 0, 1, .., N-1, and
\* positions i and i+1 are in the same run exactly when the entry matched at
\* i+1 is the contiguous successor of the entry matched at i; no match gives
\* no run.
RunsPartitionByContiguity ==
    Grouped =>
        LET runs == ret.runs
            n    == Len(args.matches)
        IN  /\ (n = 0) => runs = <<>>
            /\ \A r \in 1..Len(runs) : runs[r] # <<>>
            /\ Concat(runs) = [ i \in 1..n |-> i - 1 ]
            /\ \A i \in 0..(n - 2) :
                 (RunOf(runs, i) = RunOf(runs, i + 1)) <=> Continues(i)

\* A run of two positions followed by a run of one.
RunsPartitionByContiguityWitness ==
    /\ Grouped
    /\ Len(args.matches) = 3
    /\ ret.runs = << <<0, 1>>, <<2>> >>

\* Positions (1-based) of the matches whose source is not loaded.
MissingAt ==
    { i \in 1..Len(args.matches) :
        args.matches[i].entry.source_path \notin args.source_samples }

\* C18: when the source of some run is not in the audio map, assemble
\* returns the error that names the first such source, and writes no file.
MissingSourceAborts ==
    (Assembled /\ MissingAt # {}) =>
        LET first == CHOOSE i \in MissingAt : \A j \in MissingAt : i <= j
        IN  /\ ~ret.res.ok
            /\ ret.res.err = << "Source audio not loaded: ",
                                args.matches[first].entry.source_path >>
            /\ ~ret.res.written

\* The source of the last of three runs is missing, the others are loaded.
MissingSourceAbortsWitness ==
    /\ Assembled
    /\ Len(args.matches) = 3
    /\ MissingAt = { 3 }
    /\ Len(group_contiguous_runs(args.matches)) = 3
    /\ ~ret.res.ok

(***************************************************************************)
(* plan_timing (speak/assembler.rs).  Times are counted in ticks of 1/400  *)
(* s, so that the word pause of 0.12 s is 48 ticks.  An f64 is modelled as *)
(* a binary floating-point number with MantissaBits significant bits and   *)
(* no exponent limit: a value is an integer number of ticks with at most   *)
(* MantissaBits significant bits, and every operation rounds its exact     *)
(* result to the nearest such value, ties to the even significand.         *)
(* timing_strictness is counted in halves (0, 0.5 and 1 are 0, 1 and 2).   *)
(* The times drawn are multiples of 16 ticks, so that halving never needs  *)
(* a fraction of a tick.  stretch_factor, a quotient, is held as a reduced *)
(* fraction <<numerator, denominator>>.                                    *)
(***************************************************************************)
MantissaBits == 4

WORD_PAUSE_S == 48

Abs(x) == IF x < 0 THEN 0 - x ELSE x

RECURSIVE Pow2(_)
Pow2(n) == IF n = 0 THEN 1 ELSE 2 * Pow2(n - 1)

\* Number of binary digits of m >= 0.
RECURSIVE BitLen(_)
BitLen(m) == IF m = 0 THEN 0 ELSE 1 + BitLen(m \div 2)

\* The distance between neighbouring representable values at magnitude m.
Quantum(m) == IF BitLen(m) <= MantissaBits THEN 1 ELSE Pow2(BitLen(m) - MantissaBits)

\* Rounding of the exact result x to the nearest representable value.
Fl(x) ==
    LET m  == Abs(x)
        q  == Quantum(m)
        lo == (m \div q) * q
        r  == m - lo
        nearest == IF 2 * r < q THEN lo
                   ELSE IF 2 * r > q THEN lo + q
                   ELSE IF (lo \div q) % 2 = 0 THEN lo ELSE lo + q
    IN  IF x < 0 THEN 0 - nearest ELSE nearest

FAdd(x, y) == Fl(x + y)

FSub(x, y) == Fl(x - y)

\* timing_strictness * x, timing_strictness in halves.
FMul(timing_strictness, x) == Fl((timing_strictness * x) \div 2)

RECURSIVE Gcd(_, _)
Gcd(a, b) == IF b = 0 THEN a ELSE Gcd(b, a % b)

\* x / y for y > 0, as a reduced fraction.
FDiv(x, y) ==
    LET g == Gcd(Abs(x), y)
    IN  << x \div g, y \div g >>

One == << 1, 1 >>

\* PlanStep that adds the pause at position 0 too.
PlanStep_pause_at_zero(m, i, cursor, p) ==
    LET source_dur == FSub(m.entry.end, m.entry.start)
        fallback   == IF source_dur > 0 THEN source_dur ELSE p.avg_syllable_dur
        blended    ==
            IF p.reference_timings # None /\ i < Len(Unwrap(p.reference_timings))
            THEN LET ref_start == Unwrap(p.reference_timings)[i + 1][1]
                     ref_end   == Unwrap(p.reference_timings)[i + 1][2]
                     ref_dur   == FSub(ref_end, ref_start)
                 IN  << FAdd(cursor, FMul(p.timing_strictness, FSub(ref_start, cursor))),
                        FAdd(source_dur, FMul(p.timing_strictness, FSub(ref_dur, source_dur))) >>
            ELSE << cursor, fallback >>
        target_start == IF i \in p.word_starts
                        THEN FAdd(blended[1], WORD_PAUSE_S) ELSE blended[1]
        target_dur   == blended[2]
    IN  [ target_start    |-> target_start,
          target_duration |-> target_dur,
          stretch_factor  |-> IF source_dur > 0 THEN FDiv(target_dur, source_dur) ELSE One ]

\* PlanStep that plans every position as in text mode, whatever the
\* reference timings.
PlanStep_ignores_reference(m, i, cursor, p) ==
    LET source_dur == FSub(m.entry.end, m.entry.start)
        fallback   == IF source_dur > 0 THEN source_dur ELSE p.avg_syllable_dur
        target_start == IF i \in p.word_starts /\ i > 0
                        THEN FAdd(cursor, WORD_PAUSE_S) ELSE cursor
    IN  [ target_start    |-> target_start,
          target_duration |-> fallback,
          stretch_factor  |-> IF source_dur > 0 THEN FDiv(fallback, source_dur) ELSE One ]

\* PlanStep that never falls back to avg_syllable_dur.
PlanStep_no_fallback(m, i, cursor, p) ==
    LET source_dur == FSub(m.entry.end, m.entry.start)
        blended    ==
            IF p.reference_timings # None /\ i < Len(Unwrap(p.reference_timings))
            THEN LET ref_start == Unwrap(p.reference_timings)[i + 1][1]
                     ref_end   == Unwrap(p.reference_timings)[i + 1][2]
                     ref_dur   == FSub(ref_end, ref_start)
                 IN  << FAdd(cursor, FMul(p.timing_strictness, FSub(ref_start, cursor))),
                        FAdd(source_dur, FMul(p.timing_strictness, FSub(ref_dur, source_dur))) >>
            ELSE << cursor, source_dur >>
        target_start == IF i \in p.word_starts /\ i > 0
                        THEN FAdd(blended[1], WORD_PAUSE_S) ELSE blended[1]
        target_dur   == blended[2]
    IN  [ target_start    |-> target_start,
          target_duration |-> target_dur,
          stretch_factor  |-> IF source_dur > 0 THEN FDiv(target_dur, source_dur) ELSE One ]

\* PlanStep whose stretch_factor is source_dur / target_dur.
PlanStep_inverse_stretch(m, i, cursor, p) ==
    LET source_dur == FSub(m.entry.end, m.entry.start)
        fallback   == IF source_dur > 0 THEN source_dur ELSE p.avg_syllable_dur
        blended    ==
            IF p.reference_timings # None /\ i < Len(Unwrap(p.reference_timings))
            THEN LET ref_start == Unwrap(p.reference_timings)[i + 1][1]
                     ref_end   == Unwrap(p.reference_timings)[i + 1][2]
                     ref_dur   == FSub(ref_end, ref_start)
                 IN  << FAdd(cursor, FMul(p.timing_strictness, FSub(ref_start, cursor))),
                        FAdd(source_dur, FMul(p.timing_strictness, FSub(ref_dur, source_dur))) >>
            ELSE << cursor, fallback >>
        target_start == IF i \in p.word_starts /\ i > 0
                        THEN FAdd(blended[1], WORD_PAUSE_S) ELSE blended[1]
        target_dur   == blended[2]
    IN  [ target_start    |-> target_start,
          target_duration |-> target_dur,
          stretch_factor  |-> IF source_dur > 0 /\ target_dur > 0
                              THEN FDiv(source_dur, target_dur) ELSE One ]

\* The body of the loop of plan_timing: the plan of match m at position i
\* (0-based), with the cursor left by the positions before it; p holds
\* word_starts and the other arguments of plan_timing.
PlanStep(m, i, cursor, p) ==
    LET source_dur == FSub(m.entry.end, m.entry.start)
        fallback   == IF source_dur > 0 THEN source_dur ELSE p.avg_syllable_dur
        blended    ==
            IF p.reference_timings # None /\ i < Len(Unwrap(p.reference_timings))
            THEN LET ref_start == Unwrap(p.reference_timings)[i + 1][1]
                     ref_end   == Unwrap(p.reference_timings)[i + 1][2]
                     ref_dur   == FSub(ref_end, ref_start)
                 IN  << FAdd(cursor, FMul(p.timing_strictness, FSub(ref_start, cursor))),
                        FAdd(source_dur, FMul(p.timing_strictness, FSub(ref_dur, source_dur))) >>
            ELSE << cursor, fallback >>
        target_start == IF i \in p.word_starts /\ i > 0
                        THEN FAdd(blended[1], WORD_PAUSE_S) ELSE blended[1]
        target_dur   == blended[2]
    IN  [ target_start    |-> target_start,
          target_duration |-> target_dur,
          stretch_factor  |-> IF source_dur > 0 THEN FDiv(target_dur, source_dur) ELSE One ]

\* PlanFrom that leaves the cursor at the start of the plan.
RECURSIVE PlanFrom_cursor_at_start(_, _, _, _, _)
PlanFrom_cursor_at_start(ms, i, cursor, plans, p) ==
    IF i >= Len(ms) THEN plans
    ELSE LET plan == PlanStep(ms[i + 1], i, cursor, p)
         IN  PlanFrom_cursor_at_start(ms, i + 1, plan.target_start, Append(plans, plan), p)

\* The loop of plan_timing from position i (0-based) on.
RECURSIVE PlanFrom(_, _, _, _, _)
PlanFrom(ms, i, cursor, plans, p) ==
    IF i >= Len(ms) THEN plans
    ELSE LET plan == PlanStep(ms[i + 1], i, cursor, p)
         IN  PlanFrom(ms, i + 1, FAdd(plan.target_start, plan.target_duration),
                      Append(plans, plan), p)

plan_timing(ms, word_boundaries, avg_syllable_dur, reference_timings, timing_strictness) ==
    PlanFrom(ms, 0, 0, <<>>,
             [ word_starts       |-> { word_boundaries[k] : k \in 1..Len(word_boundaries) },
               avg_syllable_dur  |-> avg_syllable_dur,
               reference_timings |-> reference_timings,
               timing_strictness |-> timing_strictness ])

(***************************************************************************)
(* Specification of plan_timing: matches, word boundaries, reference       *)
(* timings and a strictness are drawn, then plan_timing is applied.        *)
(***************************************************************************)
MaxPlans == 2

\* (start, end) of the source syllables matched: durations 48, 0 and 16.
SourceSpans == { <<0, 48>>, <<48, 48>>, <<0, 16>> }

\* (ref_start, ref_end) of the reference syllables: durations 288, 80, 0.
ReferenceSpans == { <<0, 288>>, <<16, 96>>, <<48, 48>> }

\* timing_strictness in halves: 0, 0.5 and 1.
StrictnessValues == { 0, 1, 2 }

AvgSyllableDur == 96

TimedMatches ==
    { Vec([ i \in 1..Len(ss) |->
              [ target_index |-> i - 1,
                entry |-> [ start |-> ss[i][1], end |-> ss[i][2] ] ] ]) :
        ss \in SeqsUpTo(SourceSpans, MaxPlans) }

\* The elements of a set of numbers, in increasing order.
RECURSIVE Sorted(_)
Sorted(S) ==
    IF S = {} THEN <<>>
    ELSE LET least == CHOOSE x \in S : \A y \in S : x <= y
         IN  << least >> \o Sorted(S \ { least })

\* Text mode, and reference mode with a reference for the first positions.
TimingCalls ==
    { [ op |-> "plan_timing", matches |-> ms, word_boundaries |-> Sorted(wb),
        avg_syllable_dur |-> AvgSyllableDur, reference_timings |-> rt,
        timing_strictness |-> s ] :
        ms \in TimedMatches, wb \in SUBSET (0..(MaxPlans - 1)),
        rt \in { None } \cup { Some(r) : r \in SeqsUpTo(ReferenceSpans, MaxPlans) },
        s \in StrictnessValues }

InitTiming ==
    /\ pc = "ready"
    /\ pron = <<>>
    /\ syl_out = Idle
    /\ targets = <<>>
    /\ bank = <<>>
    /\ matches = Idle
    /\ args \in { c \in TimingCalls :
                    /\ c.reference_timings = None => c.timing_strictness = 2
                    /\ c.reference_timings # None =>
                         Len(Unwrap(c.reference_timings)) <= Len(c.matches) }
    /\ ret = Idle

PlanTiming ==
    /\ pc = "ready"
    /\ args.op = "plan_timing"
    /\ ret' = [ op |-> "plan_timing",
                plans |-> plan_timing(args.matches, args.word_boundaries,
                                      args.avg_syllable_dur, args.reference_timings,
                                      args.timing_strictness) ]
    /\ pc' = "done"
    /\ UNCHANGED <<pron, syl_out, targets, bank, matches, args>>

NextTiming == PlanTiming

SpecTiming == InitTiming /\ [][NextTiming]_vars

(***************************************************************************)
(* Properties of plan_timing.                                              *)
(***************************************************************************)
Timed == pc = "done" /\ ret.op = "plan_timing"

\* Positions (0-based) of the matches.
Positions == 0..(Len(args.matches) - 1)

\* Position i has a reference timing.
HasReference(i) ==
    args.reference_timings # None /\ i < Len(Unwrap(args.reference_timings))

SrcDur(i) == FSub(args.matches[i + 1].entry.end, args.matches[i + 1].entry.start)

RefStart(i) == Unwrap(args.reference_timings)[i + 1][1]

RefDur(i) == FSub(Unwrap(args.reference_timings)[i + 1][2], RefStart(i))

TargetDuration(i) == ret.plans[i + 1].target_duration

TargetStart(i) == ret.plans[i + 1].target_start

\* The blend of the source and the reference duration.
Blend(i) == FAdd(SrcDur(i), FMul(args.timing_strictness, FSub(RefDur(i), SrcDur(i))))

\* C14 as stated: at every position with a reference timing the duration is
\* the blend, which is the source duration for strictness 0 and exactly the
\* reference duration for strictness 1.
BlendExactAtOne ==
    Timed =>
        \A i \in Positions : HasReference(i) =>
            /\ TargetDuration(i) = Blend(i)
            /\ (args.timing_strictness = 0) => TargetDuration(i) = SrcDur(i)
            /\ (args.timing_strictness = 2) => TargetDuration(i) = RefDur(i)

\* C14 as amended: the same, but for strictness 1 the duration is the
\* reference duration up to the rounding of the subtraction and the addition:
\* within one quantum of the larger duration, and exact when the difference
\* of the two durations is representable.
BlendOfDurations ==
    Timed =>
        \A i \in Positions : HasReference(i) =>
            /\ TargetDuration(i) = Blend(i)
            /\ (args.timing_strictness = 0) => TargetDuration(i) = SrcDur(i)
            /\ (args.timing_strictness = 2) =>
                 /\ Abs(TargetDuration(i) - RefDur(i))
                      <= Quantum(Max(Abs(SrcDur(i)), Abs(RefDur(i))))
                 /\ (FSub(RefDur(i), SrcDur(i)) = RefDur(i) - SrcDur(i)) =>
                      TargetDuration(i) = RefDur(i)

\* Strictness 1 with a rounded difference: the duration misses the reference
\* duration by a rounding error.
BlendOfDurationsWitness ==
    /\ Timed
    /\ args.timing_strictness = 2
    /\ \E i \in Positions :
         /\ HasReference(i)
         /\ TargetDuration(i) # RefDur(i)
         /\ Abs(TargetDuration(i) - RefDur(i)) <= Quantum(Abs(RefDur(i)))

\* C15: without reference timings there is one plan per match, in order, and
\* the duration is the source duration when it is > 0 and the average
\* duration supplied otherwise.
TextModeDuration ==
    (Timed /\ args.reference_timings = None) =>
        /\ Len(ret.plans) = Len(args.matches)
        /\ \A i \in Positions :
             TargetDuration(i) = IF SrcDur(i) > 0 THEN SrcDur(i) ELSE args.avg_syllable_dur

\* A match with a source duration and one without.
TextModeDurationWitness ==
    /\ Timed /\ args.reference_timings = None
    /\ Len(ret.plans) = 2
    /\ SrcDur(0) > 0 /\ TargetDuration(0) = SrcDur(0)
    /\ SrcDur(1) = 0 /\ TargetDuration(1) = args.avg_syllable_dur

\* The cursor at position i: the end of the plan before it.
Cursor(i) == IF i = 0 THEN 0 ELSE FAdd(TargetStart(i - 1), TargetDuration(i - 1))

\* target_start of position i before the pause.
StartBeforePause(i) ==
    IF HasReference(i)
    THEN FAdd(Cursor(i), FMul(args.timing_strictness, FSub(RefStart(i), Cursor(i))))
    ELSE Cursor(i)

WordStarts == { args.word_boundaries[k] : k \in 1..Len(args.word_boundaries) }

\* C16: the pause is added to target_start of position i exactly when i is a
\* word start and i > 0, with and without reference timings.
PauseAtLaterWordStarts ==
    Timed =>
        \A i \in Positions :
            TargetStart(i) = IF i \in WordStarts /\ i > 0
                             THEN FAdd(StartBeforePause(i), WORD_PAUSE_S)
                             ELSE StartBeforePause(i)

\* Positions 0 and 1 are word starts: only position 1 is delayed.
PauseAtLaterWordStartsWitness ==
    /\ Timed
    /\ Len(ret.plans) = 2
    /\ WordStarts = { 0, 1 }
    /\ TargetStart(0) = StartBeforePause(0)
    /\ TargetStart(1) = StartBeforePause(1) + WORD_PAUSE_S

\* C17: stretch_factor is target_duration / src_dur when src_dur > 0 and 1.0
\* otherwise, with and without reference timings.
StretchIsRatio ==
    Timed =>
        \A i \in Positions :
            ret.plans[i + 1].stretch_factor =
                IF SrcDur(i) > 0 THEN FDiv(TargetDuration(i), SrcDur(i)) ELSE One

\* A reference five times as long as the source gives 5.0 at strictness 1;
\* a source without duration gives 1.0.
StretchIsRatioWitness ==
    /\ Timed
    /\ Len(ret.plans) = 2
    /\ \E i, j \in Positions :
         /\ SrcDur(i) > 0 /\ ret.plans[i + 1].stretch_factor = << 5, 1 >>
         /\ SrcDur(j) = 0 /\ ret.plans[j + 1].stretch_factor = One

DistLabels ==
    { << base >> : base \in DOMAIN FEATURES }
    \cup { << base, "1" >> : base \in DOMAIN FEATURES }
    \cup { << "UNKNOWN" >>, << "XX", "0" >>, <<>> }

InitDist ==
    /\ pc = "ready"
    /\ pron = <<>>
    /\ syl_out = Idle
    /\ targets = <<>>
    /\ bank = <<>>
    /\ matches = Idle
    /\ args \in { [ op |-> "phoneme_distance", a |-> a, b |-> b ] :
                    a \in DistLabels, b \in DistLabels }
    /\ ret = Idle

PhonemeDistance ==
    /\ pc = "ready"
    /\ args.op = "phoneme_distance"
    /\ ret' = [ op   |-> "phoneme_distance",
                d_ab |-> phoneme_distance(args.a, args.b),
                d_ba |-> phoneme_distance(args.b, args.a),
                d_aa |-> phoneme_distance(args.a, args.a) ]
    /\ pc' = "done"
    /\ UNCHANGED <<pron, syl_out, targets, bank, matches, args>>

NextDist == PhonemeDistance

SpecDist == InitDist /\ [][NextDist]_vars

(***************************************************************************)
(* Properties of the distance model.                                       *)
(***************************************************************************)
Measured == pc = "done" /\ ret.op = "phoneme_distance"

\* C19: phoneme_distance(a, a) = 0 and phoneme_distance(a, b) =
\* phoneme_distance(b, a), for symbols known or unknown to the feature
\* table, with or without stress digits.
DistanceReflexiveSymmetric ==
    Measured => (ret.d_aa = 0 /\ ret.d_ab = ret.d_ba)

\* An unknown symbol against itself, and against a known one.
DistanceReflexiveSymmetricWitness ==
    /\ Measured
    /\ args.a = << "UNKNOWN" >> /\ args.b = << "K" >>
    /\ ret.d_aa = 0 /\ ret.d_ab = 5 /\ ret.d_ba = 5

\* The label without its stress digits.
BaseOf(label) == IF label # <<>> /\ label[1] \notin Digits THEN << label[1] >> ELSE <<>>

Known(base) == base # <<>> /\ base[1] \in DOMAIN FEATURES

\* The feature positions after the type at which two known symbols differ.
Differing(x, y) ==
    { i \in 2..Len(FEATURES[x]) : FEATURES[x][i] # FEATURES[y][i] }

\* C20: phoneme_distance returns 0 when the bases are equal, 5 when a base
\* is not in the feature table or the types differ, and otherwise the number
\* of feature positions other than the type that differ, from 0 to 4.
DistanceByCases ==
    Measured =>
        LET x == BaseOf(args.a)
            y == BaseOf(args.b)
        IN  /\ ret.d_ab \in 0..5
            /\ (x = y) => ret.d_ab = 0
            /\ (x # y /\ (~Known(x) \/ ~Known(y))) => ret.d_ab = 5
            /\ (x # y /\ Known(x) /\ Known(y)) =>
                 IF FEATURES[x[1]][1] # FEATURES[y[1]][1] THEN ret.d_ab = 5
                 ELSE /\ ret.d_ab = Cardinality(Differing(x[1], y[1]))
                      /\ ret.d_ab \in 0..4

\* P and B differ in voicing only.
DistanceByCasesWitness ==
    /\ Measured
    /\ args.a = << "P" >> /\ args.b = << "B", "1" >>
    /\ ret.d_ab = 1

(***************************************************************************)
(* Specification of the syllable distance: two label sequences are drawn,  *)
(* then syllable_distance is applied to them, in both orders, to the first *)
(* with itself, and to their prefixes of the common length.                *)
(***************************************************************************)
MaxSylLen == 2

\* Two consonants one feature apart, a vowel, and an unknown symbol.
SylDistLabels == { << "P" >>, << "B" >>, << "AE", "1" >>, << "UNKNOWN" >> }

InitSylDist ==
    /\ pc = "ready"
    /\ pron = <<>>
    /\ syl_out = Idle
    /\ targets = <<>>
    /\ bank = <<>>
    /\ matches = Idle
    /\ args \in { [ op |-> "syllable_distance", a |-> a, b |-> b ] :
                    a \in SeqsUpTo(SylDistLabels, MaxSylLen),
                    b \in SeqsUpTo(SylDistLabels, MaxSylLen) }
    /\ ret = Idle

SyllableDistance ==
    /\ pc = "ready"
    /\ args.op = "syllable_distance"
    /\ LET common == Min(Len(args.a), Len(args.b))
       IN  ret' = [ op       |-> "syllable_distance",
                    d_ab     |-> syllable_distance(args.a, args.b),
                    d_ba     |-> syllable_distance(args.b, args.a),
                    d_aa     |-> syllable_distance(args.a, args.a),
                    d_common |-> syllable_distance(SubSeq(args.a, 1, common),
                                                   SubSeq(args.b, 1, common)) ]
    /\ pc' = "done"
    /\ UNCHANGED <<pron, syl_out, targets, bank, matches, args>>

NextSylDist == SyllableDistance

SpecSylDist == InitSylDist /\ [][NextSylDist]_vars

(***************************************************************************)
(* Properties of the syllable distance.                                    *)
(***************************************************************************)
SylMeasured == pc = "done" /\ ret.op = "syllable_distance"

\* The sum of f over the finite set S of integers.
RECURSIVE SumOver(_, _)
SumOver(f, S) ==
    IF S = {} THEN 0
    ELSE LET x == CHOOSE y \in S : TRUE
         IN  f[x] + SumOver(f, S \ {x})

\* What position i (1-based) contributes to the distance of a and b.
Contribution(a, b) ==
    [ i \in 1..Max(Len(a), Len(b)) |->
        IF i <= Len(a) /\ i <= Len(b) THEN phoneme_distance(a[i], b[i]) ELSE 5 ]

\* C21: syllable_distance(A, B) is the sum over the positions of the longer
\* sequence of phoneme_distance(A[i], B[i]) where both have position i and
\* of 5 where only one has it; so it is 0 for identical sequences, symmetric,
\* and 5 more per unmatched trailing position.
SyllableDistanceIsPositionSum ==
    SylMeasured =>
        LET a == args.a
            b == args.b
        IN  /\ ret.d_ab = SumOver(Contribution(a, b), 1..Max(Len(a), Len(b)))
            /\ ret.d_aa = 0
            /\ ret.d_ab = ret.d_ba
            /\ ret.d_ab = ret.d_common + 5 * (Max(Len(a), Len(b)) - Min(Len(a), Len(b)))

\* A shared position at distance 1 and one unmatched trailing position.
SyllableDistanceIsPositionSumWitness ==
    /\ SylMeasured
    /\ args.a = << << "P" >> >>
    /\ args.b = << << "B" >>, << "AE", "1" >> >>
    /\ ret.d_ab = 6 /\ ret.d_common = 1

(***************************************************************************)
(* Further properties of the matcher in syllable mode.                     *)
(***************************************************************************)
\* C22: every MatchResult of match_syllables for target position i carries
\* target_index = i, the labels of target i, one of the bank's entries, and
\* the syllable distance of the target to that entry's labels: the stress
\* penalty does not show in the reported distance.
ResultCarriesDistance ==
    IsSyl =>
        \A i \in 1..Len(matches.results) :
            LET r == matches.results[i]
            IN  /\ r.target_index = i - 1
                /\ r.target_phonemes = targets[i]
                /\ \E j \in 1..Len(bank) : bank[j] = r.entry
                /\ r.distance = syllable_distance(targets[i], r.entry.phoneme_labels)

\* The entry returned for a hinted target has another stress, so its cost
\* held the penalty.
ResultCarriesDistanceWitness ==
    /\ IsSyl /\ Len(matches.results) = 2
    /\ Hint(1) # None
    /\ matches.results[1].entry.stress # Hint(1)
    /\ matches.results[1].distance = 0
    /\ matches.results[2].distance > 0

\* The least syllable distance of target i to an entry of the bank.
NearestDistance(i) ==
    SetMin({ syllable_distance(targets[i], bank[j].phoneme_labels) : j \in 1..Len(bank) })

\* C23: for a single target syllable, match_syllables returns an entry at the
\* least syllable distance of the target; when a stress hint is given and an
\* entry at that distance has the hinted stress, the entry returned has it.
SingleTargetNearest ==
    (IsSyl /\ Len(targets) = 1 /\ bank # <<>>) =>
        LET e    == matches.results[1].entry
            dmin == NearestDistance(1)
        IN  /\ syllable_distance(targets[1], e.phoneme_labels) = dmin
            /\ (/\ Hint(1) # None
                /\ \E j \in 1..Len(bank) :
                     /\ syllable_distance(targets[1], bank[j].phoneme_labels) = dmin
                     /\ bank[j].stress = Hint(1))
               => e.stress = Hint(1)

\* Two nearest entries; the second one has the hinted stress and is returned.
SingleTargetNearestWitness ==
    /\ IsSyl /\ Len(targets) = 1 /\ Len(bank) >= 2
    /\ Hint(1) # None
    /\ syllable_distance(targets[1], bank[1].phoneme_labels) = NearestDistance(1)
    /\ syllable_distance(targets[1], bank[2].phoneme_labels) = NearestDistance(1)
    /\ bank[1].stress # Hint(1)
    /\ bank[2].stress = Hint(1)
    /\ matches.results[1].entry = bank[2]

\* The matcher in syllable mode again, for the order of equal minima.
NextTies == MatchSyllables

SpecTies == InitMatch /\ [][NextTies]_vars

HoldsLabelAt(j, target_ph, d) ==
    \E k \in 1..Len(bank[j].phoneme_labels) :
        phoneme_distance(target_ph, bank[j].phoneme_labels[k]) = d

\* The least distance of a target phoneme to a label of the bank.
NearestLabelDistance(target_ph) ==
    SetMin({ d \in 0..CROSS_TYPE_DISTANCE :
               \E j \in 1..Len(bank) : HoldsLabelAt(j, target_ph, d) })

\* C28: for every target phoneme and a bank that holds a label,
\* match_phonemes reports the least phoneme_distance of the target to a
\* label of the bank and returns the first entry, in bank order, that holds
\* a label at that distance.
PhonemeNearestFirst ==
    (IsPhon /\ FlatBank(bank) # <<>>) =>
        /\ ~matches.panicked
        /\ Len(matches.results) = Len(Concat(targets))
        /\ \A i \in 1..Len(matches.results) :
             LET target_ph == Concat(targets)[i]
                 dmin      == NearestLabelDistance(target_ph)
                 first     == CHOOSE j \in 1..Len(bank) :
                                  /\ HoldsLabelAt(j, target_ph, dmin)
                                  /\ \A m \in 1..(j - 1) : ~HoldsLabelAt(m, target_ph, dmin)
             IN  /\ matches.results[i].distance = dmin
                 /\ matches.results[i].entry = bank[first]

\* A target whose nearest label is not exact and occurs in two entries, the
\* first of which is returned, and a target with an exact hit.
PhonemeNearestFirstWitness ==
    /\ IsPhon /\ Len(bank) >= 2
    /\ \E i \in 1..Len(matches.results) :
         /\ matches.results[i].distance = 1
         /\ matches.results[i].entry = bank[1]
         /\ HoldsLabelAt(2, Concat(targets)[i], 1)
    /\ \E i \in 1..Len(matches.results) : matches.results[i].distance = 0

(***************************************************************************)
(* MatchResult::to_json_value (speak/matcher.rs).  The JSON object is a    *)
(* record whose field names are the keys of the object.                    *)
(***************************************************************************)
\* to_json_value that writes the target position as source_index.
to_json_value_target_position(self) ==
    [ target_index |-> self.target_index,
      target       |-> self.target_phonemes,
      matched      |-> self.entry.phoneme_labels,
      matched_word |-> self.entry.word,
      source_index |-> self.target_index,
      distance     |-> self.distance ]

to_json_value(self) ==
    [ target_index |-> self.target_index,
      target       |-> self.target_phonemes,
      matched      |-> self.entry.phoneme_labels,
      matched_word |-> self.entry.word,
      source_index |-> self.entry.index,
      distance     |-> self.distance ]

\* Match results as the matcher builds them, over entries that carry their
\* parent word.
JsonEntries ==
    { [ phoneme_labels |-> l, stress |-> extract_stress(l), word |-> w,
        source_path |-> "a.wav", index |-> x ] :
        l \in SylLabels, w \in { "cat", "gap" }, x \in { 0, 2 } }

JsonMatches ==
    { [ target_phonemes |-> t, entry |-> e,
        distance |-> syllable_distance(t, e.phoneme_labels), target_index |-> i ] :
        t \in TargetLabels, e \in JsonEntries, i \in { 0, 1, 3 } }

InitJson ==
    /\ pc = "ready"
    /\ pron = <<>>
    /\ syl_out = Idle
    /\ targets = <<>>
    /\ bank = <<>>
    /\ matches = Idle
    /\ args \in { [ op |-> "to_json_value", self |-> m ] : m \in JsonMatches }
    /\ ret = Idle

ToJsonValue ==
    /\ pc = "ready"
    /\ args.op = "to_json_value"
    /\ ret' = [ op |-> "to_json_value", value |-> to_json_value(args.self) ]
    /\ pc' = "done"
    /\ UNCHANGED <<pron, syl_out, targets, bank, matches, args>>

NextJson == ToJsonValue

SpecJson == InitJson /\ [][NextJson]_vars

Serialized == pc = "done" /\ ret.op = "to_json_value"

\* C24 as stated: the record of to_json_value has exactly the fields
\* target_index, target_phonemes, matched_phonemes, matched_word,
\* source_index and distance.
RecordFieldsAsStated ==
    Serialized =>
        DOMAIN ret.value = { "target_index", "target_phonemes", "matched_phonemes",
                             "matched_word", "source_index", "distance" }

\* C24 as amended: the record has exactly the fields target_index, target,
\* matched, matched_word, source_index and distance, holding the target
\* position, the sought labels, the chosen entry's labels, its parent word,
\* its bank index and the integer distance.
RecordFields ==
    Serialized =>
        /\ DOMAIN ret.value = { "target_index", "target", "matched",
                                "matched_word", "source_index", "distance" }
        /\ ret.value.target_index = args.self.target_index
        /\ ret.value.target = args.self.target_phonemes
        /\ ret.value.matched = args.self.entry.phoneme_labels
        /\ ret.value.matched_word = args.self.entry.word
        /\ ret.value.source_index = args.self.entry.index
        /\ ret.value.distance = args.self.distance
        /\ ret.value.distance \in Int

\* A match whose target position, bank index and distance all differ, and
\* whose labels differ from the target's.
RecordFieldsWitness ==
    /\ Serialized
    /\ args.self.target_index = 3
    /\ args.self.entry.index = 2
    /\ args.self.distance > 3
    /\ ret.value.matched # ret.value.target
    /\ ret.value.source_index = 2

(***************************************************************************)
(* Further properties of the syllabifier: the shape of the syllables.      *)
(***************************************************************************)
Syllabified == Called("syllabify") /\ syl_out.res.ok

VowelCount(s) == Cardinality({ k \in 1..Len(s) : s[k] \in VOWELS })

\* A nucleus: one vowel, with or without a Y before it and an R after it.
NucleusShape(nuc) ==
    \E v \in VOWELS :
        nuc \in { << v >>, << <<"Y">>, v >>, << v, <<"R">> >>, << <<"Y">>, v, <<"R">> >> }

\* C25: a successful syllabify result has as many syllables as the input has
\* vowel symbols; every nucleus is one vowel symbol, after one Y or none and
\* before one R or none; no onset and no coda holds a vowel symbol.
OneVowelPerSyllable ==
    Syllabified =>
        LET val == syl_out.res.val
        IN  /\ Len(val) = VowelCount(pron)
            /\ \A i \in 1..Len(val) :
                 /\ VowelCount(val[i][2]) = 1
                 /\ NucleusShape(val[i][2])
                 /\ VowelCount(val[i][1]) = 0
                 /\ VowelCount(val[i][3]) = 0

\* Two syllables, the first r-colored or the second y-glided.
OneVowelPerSyllableWitness ==
    /\ Syllabified
    /\ Len(syl_out.res.val) = 2
    /\ syl_out.res.val[2][2][1] = <<"Y">>
    /\ Len(syl_out.res.val[2][2]) = 2

\* A single symbol, a legal 2-cluster or a legal 3-cluster (or nothing, for
\* an empty interlude).
LegalOnset(s) ==
    \/ Len(s) <= 1
    \/ Len(s) = 2 /\ << s[1], s[2] >> \in O2
    \/ Len(s) = 3 /\ << s[1], s[2], s[3] >> \in O3

Suffix(s, n) == SubSeq(s, Len(s) - n + 1, Len(s))

\* The input symbols between vowel i - 1 and vowel i.
Interlude(i) ==
    LET vp == VowelPositions(pron, 1)
    IN  SubSeq(pron, vp[i - 1] + 1, vp[i] - 1)

\* What is left of interlude i after R-coloring, Y-gliding and retraction
\* (rest), and the S that retraction took (retracted).
LeftOfInterlude(i) ==
    LET inter == Interlude(i)
        coloured == Len(inter) > 1 /\ inter[1] = <<"R">>
        s1 == IF coloured THEN SubSeq(inter, 2, Len(inter)) ELSE inter
        s2 == IF Len(s1) > 2 /\ s1[Len(s1)] = <<"Y">> THEN SubSeq(s1, 1, Len(s1) - 1) ELSE s1
        lax == ~coloured /\ pron[VowelPositions(pron, 1)[i - 1]] \in SLAX
        retract == Len(s2) > 1 /\ syl_out.alaska_rule /\ lax /\ s2[1] = <<"S">>
    IN  [ rest |-> IF retract THEN SubSeq(s2, 2, Len(s2)) ELSE s2,
          retracted |-> IF retract THEN << s2[1] >> ELSE <<>> ]

\* C26: for every syllable after the first of a successful result, the onset
\* is the longest suffix of what R-coloring, Y-gliding and retraction left of
\* the interlude that is a single symbol or a legal cluster; it has at most 3
\* symbols, and the symbols left of it are the coda of the syllable before,
\* in order.
OnsetIsLongestLegalSuffix ==
    Syllabified =>
        LET val == syl_out.res.val
        IN  \A i \in 2..Len(val) :
              LET left  == LeftOfInterlude(i)
                  rest  == left.rest
                  onset == val[i][1]
                  n     == Len(onset)
              IN  /\ n <= 3 /\ n <= Len(rest)
                  /\ onset = Suffix(rest, n)
                  /\ LegalOnset(onset)
                  /\ \A m \in (n + 1)..Len(rest) : ~LegalOnset(Suffix(rest, m))
                  /\ (n = 2) => << onset[1], onset[2] >> \in O2
                  /\ (n = 3) => << onset[1], onset[2], onset[3] >> \in O3
                  /\ val[i - 1][3] = left.retracted \o SubSeq(rest, 1, Len(rest) - n)

\* A 2-symbol onset with one symbol left to the coda before it.
OnsetIsLongestLegalSuffixWitness ==
    /\ Syllabified
    /\ Len(syl_out.res.val) = 2
    /\ Len(syl_out.res.val[2][1]) = 2
    /\ Len(syl_out.res.val[1][3]) = 1
    /\ LeftOfInterlude(2).retracted = <<>>

(***************************************************************************)
(* run_speak (cli/src/main.rs), from the target text to the timing plan:   *)
(* the text is turned into syllables, the word starts are read off the     *)
(* syllables, the targets are matched in the unit asked for and the plan   *)
(* is made.  The text is modelled by its words' pronunciations, the bank   *)
(* by entries that also carry their times and parent word.                 *)
(***************************************************************************)
\* Indices of the syllables whose word_index differs from the one before.
RECURSIVE BoundariesFrom(_, _, _, _)
BoundariesFrom(syllables, i, last_word_index, boundaries) ==
    IF i >= Len(syllables) THEN boundaries
    ELSE IF last_word_index # Some(syllables[i + 1].word_index)
         THEN BoundariesFrom(syllables, i + 1, Some(syllables[i + 1].word_index),
                             Append(boundaries, i))
         ELSE BoundariesFrom(syllables, i + 1, last_word_index, boundaries)

word_boundaries_from_syllables(syllables) == BoundariesFrom(syllables, 0, None, <<>>)

\* The sum of the durations of the first k entries of the bank.
RECURSIVE DurationSum(_, _)
DurationSum(bk, k) ==
    IF k = 0 THEN 0
    ELSE FAdd(DurationSum(bk, k - 1), FSub(bk[k].end, bk[k].start))

\* The mean duration of the bank's entries, 0.25 s for an empty bank.  The
\* durations drawn below are equal, so the quotient is whole.
AvgDur(bk) ==
    IF bk = <<>> THEN 100
    ELSE Fl(DurationSum(bk, Len(bk)) \div Len(bk))

\* The match step of run_speak: per phoneme of the flattened targets, or per
\* syllable with the stress hints and the default bonus.
SpeakMatch(target_syls, bk, match_unit) ==
    LET lists    == Vec([ i \in 1..Len(target_syls) |-> target_syls[i].phonemes ])
        stresses == Vec([ i \in 1..Len(target_syls) |-> target_syls[i].stress ])
    IN  IF match_unit = "phoneme"
        THEN match_phonemes(Concat(lists), bk)
        ELSE [ panicked |-> FALSE,
               results  |-> match_syllables(lists, bk, Some(stresses), None) ]

MaxWords == 2

\* What g2p returns for the words of a text: a word of one syllable, a word
\* of two, and a word without phonemes.
SpeakWords ==
    { << <<"K">>, <<"AE","1">>, <<"T">> >>,
      << <<"K">>, <<"IH","1">>, <<"T">>, <<"IY","0">> >>,
      <<>> }

SpeakEntries ==
    << [ phoneme_labels |-> << <<"K">>, <<"AE","1">>, <<"T">> >>, stress |-> Some(1),
         source_path |-> "a.wav", index |-> 0, start |-> 0, end |-> 48, word |-> "cat" ],
       [ phoneme_labels |-> << <<"T">>, <<"IY","0">> >>, stress |-> Some(0),
         source_path |-> "a.wav", index |-> 1, start |-> 48, end |-> 96, word |-> "tea" ] >>

SpeakBanks ==
    { << SpeakEntries[1] >>, SpeakEntries, << SpeakEntries[2], SpeakEntries[1] >> }

InitSpeak ==
    /\ pc = "ready"
    /\ pron = <<>>
    /\ syl_out = Idle
    /\ targets = <<>>
    /\ bank \in SpeakBanks
    /\ matches = Idle
    /\ args \in { [ op |-> "run_speak", text |-> w, match_unit |-> u,
                    timing_strictness |-> s ] :
                    w \in SeqsUpTo(SpeakWords, MaxWords) \ { <<>> },
                    u \in { "syllable", "phoneme" }, s \in StrictnessValues }
    /\ ret = Idle

RunSpeak ==
    /\ pc = "ready"
    /\ args.op = "run_speak"
    /\ \E target_syls \in { text_to_syllables(args.text) } :
       \E word_bounds \in { word_boundaries_from_syllables(target_syls) } :
       \E found \in { SpeakMatch(target_syls, bank, args.match_unit) } :
       \E timing \in { IF found.panicked THEN <<>>
                       ELSE plan_timing(found.results, word_bounds, AvgDur(bank),
                                        None, args.timing_strictness) } :
           ret' = [ op          |-> "run_speak",
                    panicked    |-> found.panicked,
                    target_syls |-> target_syls,
                    word_bounds |-> word_bounds,
                    matches     |-> found.results,
                    timing      |-> timing ]
    /\ pc' = "done"
    /\ UNCHANGED <<pron, syl_out, targets, bank, matches, args>>

NextSpeak == RunSpeak

SpecSpeak == InitSpeak /\ [][NextSpeak]_vars

(***************************************************************************)
(* Properties of run_speak.                                                *)
(***************************************************************************)
Spoke == pc = "done" /\ ret.op = "run_speak" /\ ~ret.panicked

\* The word of every target unit, in the order of the match list: of every
\* syllable in syllable mode, of every phoneme in phoneme mode.
UnitWords ==
    IF args.match_unit = "phoneme"
    THEN Concat([ i \in 1..Len(ret.target_syls) |->
                    [ k \in 1..Len(ret.target_syls[i].phonemes) |->
                        ret.target_syls[i].word_index ] ])
    ELSE [ i \in 1..Len(ret.target_syls) |-> ret.target_syls[i].word_index ]

\* Position i (0-based) of the match list is the first unit of a word.
FirstUnitOfWord(i) ==
    /\ i < Len(ret.matches)
    /\ i = 0 \/ UnitWords[i + 1] # UnitWords[i]

\* The plan at position i > 0 starts later than the plan before it ends.
PausedBefore(i) ==
    ret.timing[i + 1].target_start
        # FAdd(ret.timing[i].target_start, ret.timing[i].target_duration)

\* C30: in syllable mode and in phoneme mode, every index of the word starts
\* handed to plan_timing is the position, in the match list handed with it,
\* of the first target unit of a word, and the pause falls on such positions
\* only.
WordStartsAreFirstUnits ==
    Spoke =>
        /\ \A k \in 1..Len(ret.word_bounds) : FirstUnitOfWord(ret.word_bounds[k])
        /\ \A i \in 1..(Len(ret.timing) - 1) : PausedBefore(i) => FirstUnitOfWord(i)

====
